---- MODULE Spec2Model ----
(***************************************************************************)
(* A model of the strudel pattern engine (packages/core/pattern.mjs).      *)
(*                                                                         *)
(* A pattern is a query function State -> [Hap] plus an optional step      *)
(* count.  The query closures of pattern.mjs are represented as nodes of   *)
(* a syntax tree (one node kind per closure the source creates) and        *)
(* Query interprets a node exactly as the closure's body does.  Time is    *)
(* exact rational arithmetic, as in fraction.mjs.                          *)
(***************************************************************************)
EXTENDS Integers, Sequences, FiniteSets, TLC

VARIABLES
  pat,           \* the pattern value the caller currently holds
  ops,           \* number of combinator calls made so far
  lastOp,        \* name of the combinator that returned pat
  arms,          \* the patterns given to it, when it takes a list
  qspan,         \* span of the last queryArc call on pat
  haps,          \* events returned by the last queryArc call on pat
  queried,       \* TRUE iff pat was queried since it was built
  silenceSteps,  \* _steps of the shared constant `silence`
  nothingSteps,  \* _steps of the shared constant `nothing`
  held,          \* a second pattern value the caller keeps while building pat
  heldSpan,      \* span of the first queryArc call on held
  heldHaps,      \* events returned by the first queryArc call on held
  raised,        \* TRUE iff the last call threw to its caller
  context,       \* context of the events of pat that stem from its leaf pattern
  attached,      \* the onTrigger calls made on pat: callback and dominant flag
  called,        \* callbacks run by the last call of context.onTrigger, with its argument
  qcontrols      \* controls of the last queryArc call on pat

vars == <<pat, ops, lastOp, arms, qspan, haps, queried, silenceSteps, nothingSteps,
          held, heldSpan, heldHaps, raised, context, attached, called, qcontrols>>

----------------------------------------------------------------------------
(* Bounds of the model *)

\* number of onTrigger calls on a pattern
MaxAttached == 3

\* number of combinator calls applied on top of a leaf pattern
MaxOps == 2
\* query spans begin in cycles -MaxCycle .. MaxCycle
MaxCycle == 2

----------------------------------------------------------------------------
(* fraction.mjs: exact rationals, normalised, denominator > 0 *)

Abs(x) == IF x < 0 THEN -x ELSE x

RECURSIVE GCD(_, _)
GCD(a, b) == IF b = 0 THEN a ELSE GCD(b, a % b)

LCM(a, b) == IF a = 0 \/ b = 0 THEN 0 ELSE (a * b) \div GCD(a, b)

Fraction(n, d) ==
  LET s == IF d < 0 THEN -1 ELSE 1
      g == GCD(Abs(n), Abs(d))
  IN  [n |-> (s * n) \div g, d |-> (s * d) \div g]

\* `undefined` where a Fraction is expected (steps of a stepless pattern)
Undef == [n |-> 0, d |-> 0]

IsDef(x) == x.d # 0

Int2F(i) == [n |-> i, d |-> 1]

FracAdd(x, y) == Fraction(x.n * y.d + y.n * x.d, x.d * y.d)
FracSub(x, y) == Fraction(x.n * y.d - y.n * x.d, x.d * y.d)
FracMul(x, y) == Fraction(x.n * y.n, x.d * y.d)
\* fraction.js throws on division by zero; every call site of the model guards it
FracDiv(x, y) == Fraction(x.n * y.d, x.d * y.n)
FracLt(x, y) == x.n * y.d < y.n * x.d
FracLte(x, y) == x.n * y.d <= y.n * x.d
FracGt(x, y) == FracLt(y, x)
FracGte(x, y) == FracLte(y, x)
FracEq(x, y) == x.n * y.d = y.n * x.d
FracMin(x, y) == IF FracLt(y, x) THEN y ELSE x
FracMax(x, y) == IF FracGt(y, x) THEN y ELSE x

\* floor as an integer
FloorInt(x) == x.n \div x.d
FracFloor(x) == Int2F(FloorInt(x))
\* sam: start of the cycle containing x
sam(x) == FracFloor(x)
nextSam(x) == Int2F(FloorInt(x) + 1)
cyclePos(x) == FracSub(x, sam(x))

\* lcm of two fractions (fraction.js): lcm(n1,n2) / gcd(d1,d2); 0 if either is 0
FracLcm(x, y) ==
  IF x.n = 0 \/ y.n = 0 THEN Int2F(0)
  ELSE Fraction(LCM(Abs(x.n), Abs(y.n)), GCD(x.d, y.d))

\* mulmaybe: undefined if either side is undefined
mulmaybe(x, y) == IF IsDef(x) /\ IsDef(y) THEN FracMul(x, y) ELSE Undef

\* exported lcm(...fractions): undefineds removed; undefined when none is left;
\* otherwise folded from Fraction(1)
RECURSIVE lcmFold(_, _)
lcmFold(acc, fs) ==
  IF fs = <<>> THEN acc ELSE lcmFold(FracLcm(acc, Head(fs)), Tail(fs))

lcm(fs) ==
  LET defd == SelectSeq(fs, IsDef)
  IN  IF defd = <<>> THEN Undef ELSE lcmFold(Int2F(1), defd)

\* util.mjs _mod on numbers: ((n % m) + m) % m with the remainder of JavaScript
JsRem(a, m) == IF a >= 0 THEN a % m ELSE -((-a) % m)
_mod(a, m) == JsRem(JsRem(a, m) + m, m)

----------------------------------------------------------------------------
(* timespan.mjs *)

TimeSpan(b, e) == [begin |-> b, end |-> e]

\* `undefined` where a TimeSpan is expected (whole of a continuous hap, or
\* an empty intersection)
NoSpan == TimeSpan(Undef, Undef)

HasSpan(s) == IsDef(s.begin)

withTime(span, f(_)) == TimeSpan(f(span.begin), f(span.end))

\* the span split at every integer boundary strictly inside it
RECURSIVE spanCyclesFrom(_, _)
spanCyclesFrom(begin, end) ==
  IF ~FracGt(end, begin) THEN <<>>
  ELSE IF sam(begin) = sam(end) THEN <<TimeSpan(begin, end)>>
  ELSE <<TimeSpan(begin, nextSam(begin))>> \o spanCyclesFrom(nextSam(begin), end)

spanCycles(span) ==
  IF FracEq(span.begin, span.end) THEN <<span>>
  ELSE spanCyclesFrom(span.begin, span.end)

\* intersection of two spans, NoSpan if they do not intersect; a zero-width
\* intersection at the end of a non-zero-width span does not count
intersection(a, b) ==
  LET ib == FracMax(a.begin, b.begin)
      ie == FracMin(a.end, b.end)
  IN  IF FracGt(ib, ie) THEN NoSpan
      ELSE IF FracEq(ib, ie) /\
              (  (FracEq(ib, a.end) /\ FracLt(a.begin, a.end))
              \/ (FracEq(ib, b.end) /\ FracLt(b.begin, b.end)))
           THEN NoSpan
      ELSE TimeSpan(ib, ie)

\* wholeCycle: the cycle containing a time
wholeCycle(t) == TimeSpan(sam(t), nextSam(t))

----------------------------------------------------------------------------
(* hap.mjs *)

Hap(whole, part, value) == [whole |-> whole, part |-> part, value |-> value]

wholeOrPart(hap) == IF HasSpan(hap.whole) THEN hap.whole ELSE hap.part

hapWithSpan(hap, f(_)) ==
  Hap(IF HasSpan(hap.whole) THEN f(hap.whole) ELSE NoSpan, f(hap.part), hap.value)

----------------------------------------------------------------------------
(* helpers on sequences *)

\* F applied to the value of x: x is evaluated once, however often F uses it
With(x, F(_)) == CHOOSE r \in {F(v) : v \in {x}} : TRUE

RECURSIVE flattenTuple(_)
flattenTuple(ss) == IF ss = <<>> THEN <<>> ELSE Head(ss) \o flattenTuple(Tail(ss))

\* util.mjs flatten: the concatenation of a list of lists
flatten(lists) == With(lists, flattenTuple)

\* Array.prototype.map
SeqMap(f(_), list) == With(list, LAMBDA s : <<>> \o [i \in 1..Len(s) |-> f(s[i])])

Range(s) == {s[i] : i \in 1..Len(s)}

----------------------------------------------------------------------------
(* values carried by haps: numbers, functions of one value, patterns *)

NumV(n) == [pat |-> <<>>, kind |-> "num", num |-> n]
\* the functions used as values of a pattern of functions: id, and x => x + k
FnV(name, k) == [pat |-> <<>>, kind |-> name, num |-> k]
PatV(p) == [pat |-> <<p>>, kind |-> "pat", num |-> 0]
\* the float k / 2^29, 0 <= k <= 2^29: the values of rand and of 1 - rand
RandV(k) == [pat |-> <<>>, kind |-> "rand", num |-> k]
\* (_) => a
ConstV(a) == [pat |-> <<a>>, kind |-> "const", num |-> 0]
\* (factor) => func(factor, pat), the mapFn of a patternified fast
FastOfV(p) == [pat |-> <<p>>, kind |-> "fastOf", num |-> 0]

\* undefined as a value
UndefV == [pat |-> <<>>, kind |-> "undefined", num |-> 0]
\* an object value with the controls s, begin, end, _slices, speed and unit; a
\* control the object does not have is Undef, a unit it does not have ""
Sound(s, begin, end, slices, speed, unit) ==
  [s |-> s, begin |-> begin, end |-> end, _slices |-> slices, speed |-> speed, unit |-> unit]
ObjV(o) == [pat |-> <<o>>, kind |-> "obj", num |-> 0]
\* the functions given to fmap to make sounds of numbers: (v) => ({ s: v, speed }),
\* (v) => ({ s: v, unit: 's' }) and (v) => ({ s: v, speed, unit: 's' })
SoundFnV(kind, speed) == [pat |-> <<>>, kind |-> kind, num |-> speed]
\* the functions slice gives to innerBind and outerBind, with the ipat, opat, n
\* and i they captured (i as the pattern pure(i))
SliceNV(ipat, opat) == [pat |-> <<ipat, opat>>, kind |-> "sliceN", num |-> 0]
SliceIV(n, opat) == [pat |-> <<opat>>, kind |-> "sliceI", num |-> n]
SliceOV(n, ipure) == [pat |-> <<ipure>>, kind |-> "sliceO", num |-> n]
\* the functions given to fmap by _pick and by squeeze, with the lookup array
\* they captured: (i) => lookup[modulo ? Math.round(i) % len : clamp(...)] and
\* (i) => xs[_mod(Math.round(i), xs.length)]
PickV(lookup, modulo) ==
  [pat |-> lookup, kind |-> IF modulo THEN "pickModulo" ELSE "pickClamp", num |-> 0]
SqueezeKeyV(xs) == [pat |-> xs, kind |-> "squeezeKey", num |-> 0]
\* the functions given to fmap by _opRestart under keepif:
\* (b) => this.fmap((a) => (b ? a : undefined)), and its inner (a) => ...
KeepIfOfV(this) == [pat |-> <<this>>, kind |-> "keepifOf", num |-> 0]
KeepIfV(b) == [pat |-> <<>>, kind |-> "keepif", num |-> b.num]

----------------------------------------------------------------------------
(* state.mjs *)

State(span, controls) == [span |-> span, controls |-> controls]
setSpan(state, span) == [state EXCEPT !.span = span]
NoControls == [cps |-> Undef]

\* hap.context of the events of a leaf pattern: neither onTrigger nor
\* dominantTrigger.  An onTrigger closure is the pair of the closure it captured
\* as hap.context.onTrigger (<<>> when there was none) and of its callback.
NoContext == [onTrigger |-> <<>>, dominantTrigger |-> "undefined"]

\* the parameter `dominant = true`: true when the argument is left out
dominantOrDefault(dominant) == IF dominant = "undefined" THEN "true" ELSE dominant

\* a || b on undefined, false and true
JsOr(a, b) == IF a = "true" THEN a ELSE b

\* the context given to hap.setContext by onTrigger, the flag taken from the
\* last call alone
onTriggerContextLastFlag(ctx, onTrigger, dominant) ==
  [onTrigger |-> <<ctx.onTrigger, onTrigger>>,
   dominantTrigger |-> dominantOrDefault(dominant)]

\* the context given to hap.setContext by onTrigger
onTriggerContext(ctx, onTrigger, dominant) ==
  [onTrigger |-> <<ctx.onTrigger, onTrigger>>,
   dominantTrigger |-> JsOr(ctx.dominantTrigger, dominantOrDefault(dominant))]

\* a call of an onTrigger closure: the closure it captured, if it exists, then
\* its callback, each with the arguments of the call; the callbacks in the
\* order in which they ran
RECURSIVE callOnTrigger(_, _)
callOnTrigger(closure, args) ==
  IF closure = <<>> THEN <<>>
  ELSE callOnTrigger(closure[1], args) \o <<[cb |-> closure[2], args |-> args]>>

----------------------------------------------------------------------------
(* class Pattern: a query closure and _steps.  op names the closure, k1, k2, *)
(* v and kids are the variables the closure captured.                        *)

\* (the fields of every record of this module are written in the order of their
\* first appearance in the module, the order in which TLC keeps them)
Node(op, k1, k2, v, kids, steps) ==
  [v |-> v, op |-> op, k1 |-> k1, k2 |-> k2, kids |-> kids, steps |-> steps]

F0 == Int2F(0)
F1 == Int2F(1)
NoV == NumV(0)

\* the shared constants `silence` and `nothing`: every use is the same object,
\* so their _steps is the current value of silenceSteps / nothingSteps
silence == Node("silence", F0, F0, NoV, <<>>, Undef)
nothing == Node("nothing", F0, F0, NoV, <<>>, Undef)

IsShared(p) == p.op \in {"silence", "nothing"}

\* get _steps
StepsOf(p) ==
  CASE p.op = "silence" -> silenceSteps
    [] p.op = "nothing" -> nothingSteps
    [] OTHER -> p.steps

\* setSteps / `result._steps = ...` on a pattern; on a shared constant the
\* assignment changes the constant itself (see silenceStepsAfter)
\* util.mjs clamp: Math.min(Math.max(num, min), max)
clamp(num, min, max) ==
  LET atLeast == IF num > min THEN num ELSE min
  IN  IF atLeast < max THEN atLeast ELSE max

\* array[key] for an integer key: undefined outside 0 .. length - 1
ArrayAt(array, key) ==
  IF key \in 0..(Len(array) - 1) THEN PatV(array[key + 1]) ELSE UndefV

setSteps(p, steps) == IF IsShared(p) THEN p ELSE [p EXCEPT !.steps = steps]

pure(value) == Node("pure", F0, F0, value, <<>>, F1)

\* withValue / fmap
withValue(p, func) == Node("withValue", F0, F0, func, <<p>>, StepsOf(p))

\* a function given to fmap throws on x: (v) => { if (v === k) throw ...; return v }
ApplyThrows(f, x) == f.kind = "throwOn" /\ x = NumV(f.num)

\* withQueryTime(func) and withHapTime(func); func is t => t op k
withQueryTime(p, fop, k) == Node("withQueryTime", k, F0, FnV(fop, 0), <<p>>, Undef)
withHapTime(p, fop, k) == Node("withHapTime", k, F0, FnV(fop, 0), <<p>>, Undef)

TimeFn(node, t) ==
  CASE node.v.kind = "mul" -> FracMul(t, node.k1)
    [] node.v.kind = "div" -> FracDiv(t, node.k1)
    [] node.v.kind = "add" -> FracAdd(t, node.k1)
    [] node.v.kind = "sub" -> FracSub(t, node.k1)

\* withHaps(func) keeps the steps; withContext is withHap on the context only
withContext(p) == Node("withContext", F0, F0, NoV, <<p>>, StepsOf(p))

splitQueries(p) == Node("splitQueries", F0, F0, NoV, <<p>>, Undef)

\* filterHaps((hap) => hap.whole)
discreteOnly(p) == Node("discreteOnly", F0, F0, NoV, <<p>>, Undef)

----------------------------------------------------------------------------
(* constructors.  For a function given to register(), xFn is the function, *)
(* _x the method Pattern.prototype._x and x the method Pattern.prototype.x *)
(* called with plain (pure) arguments.                                      *)

\* Pattern.prototype['_' + name]: func(...args, this), then setSteps(this._steps)
\* when the function was registered with preserveSteps
underscoreMethod(result, this, preserveSteps) ==
  IF preserveSteps THEN setSteps(result, StepsOf(this)) ELSE result

\* the patternified function given pure arguments: func(...pureArgs, pat),
\* withContext, then `result._steps = pat._steps` when preserveSteps
patternified(result, this, preserveSteps) ==
  IF preserveSteps THEN setSteps(withContext(result), StepsOf(this))
  ELSE withContext(result)

stack(pats) ==
  Node("stack", F0, F0, NoV, pats, lcm(SeqMap(StepsOf, pats)))

slowcat(pats) ==
  IF Len(pats) = 1 THEN pats[1]
  ELSE setSteps(splitQueries(Node("slowcat", F0, F0, NoV, pats, Undef)),
                lcm(SeqMap(StepsOf, pats)))

\* slowcatPrime: one arm per cycle, the cycles of the arms not shifted
slowcatPrime(pats) == splitQueries(Node("slowcatPrime", F0, F0, NoV, pats, Undef))

\* fast: factor 0 is silence
fastFn(factor, p) ==
  IF factor = F0 THEN silence
  ELSE setSteps(withHapTime(withQueryTime(p, "mul", factor), "div", factor), StepsOf(p))

_fast(factor, p) == underscoreMethod(fastFn(factor, p), p, TRUE)
fast(factor, p) == patternified(fastFn(factor, p), p, TRUE)

slowFnNoInverse(factor, p) ==
  IF factor = F0 THEN silence ELSE _fast(factor, p)

slowFn(factor, p) ==
  IF factor = F0 THEN silence ELSE _fast(FracDiv(F1, factor), p)

slow(factor, p) == patternified(slowFn(factor, p), p, FALSE)

fastcatStepsOfArms(pats) ==
  IF Len(pats) > 1 THEN _fast(Int2F(Len(pats)), slowcat(pats)) ELSE slowcat(pats)

fastcat(pats) ==
  LET result == slowcat(pats)
  IN  IF Len(pats) > 1
      THEN setSteps(_fast(Int2F(Len(pats)), result), Int2F(Len(pats)))
      ELSE result

earlyFn(offset, p) ==
  withHapTime(withQueryTime(p, "add", offset), "sub", offset)

_early(offset, p) == underscoreMethod(earlyFn(offset, p), p, TRUE)
early(offset, p) == patternified(earlyFn(offset, p), p, TRUE)

lateFnSameSign(offset, p) == _early(offset, p)

lateFn(offset, p) == _early(FracSub(F0, offset), p)

_late(offset, p) == underscoreMethod(lateFn(offset, p), p, TRUE)
late(offset, p) == patternified(lateFn(offset, p), p, TRUE)

revFn(p) == splitQueries(Node("rev", F0, F0, NoV, <<p>>, Undef))

\* registered with patternify = false, preserveSteps = true
rev(p) == setSteps(revFn(p), StepsOf(p))

\* Array(n - 1).fill(pat)
Fill(n, p) == [i \in 1..n |-> p]

\* lastOf(n, func, pat) and firstOf / every; funcOfPat is func(pat)
lastOfFn(n, funcOfPat, p) == slowcatPrime(Fill(n - 1, p) \o <<funcOfPat>>)
lastOf(n, funcOfPat, p) == patternified(lastOfFn(n, funcOfPat, p), p, FALSE)

firstOfFn(n, funcOfPat, p) == slowcatPrime(<<funcOfPat>> \o Fill(n - 1, p))
every(n, funcOfPat, p) == patternified(firstOfFn(n, funcOfPat, p), p, FALSE)

fastGapFn(factor, p) ==
  splitQueries(
    Node("fastGap_ef", factor, F0, NoV,
         <<Node("fastGap_qf", factor, F0, NoV, <<p>>, Undef)>>, Undef))

_fastGap(factor, p) == underscoreMethod(fastGapFn(factor, p), p, FALSE)
fastGap(factor, p) == patternified(fastGapFn(factor, p), p, FALSE)

\* compress(b, e): silence outside 0 <= b <= e <= 1; b = e divides by zero
compressIsSilence(b, e) ==
  FracGt(b, e) \/ FracGt(b, F1) \/ FracGt(e, F1) \/ FracLt(b, F0) \/ FracLt(e, F0)

compressRaises(b, e) == ~compressIsSilence(b, e) /\ FracEq(b, e)

compressFn(b, e, p) ==
  IF compressIsSilence(b, e) THEN silence
  ELSE _late(b, _fastGap(FracDiv(F1, FracSub(e, b)), p))

_compress(b, e, p) == underscoreMethod(compressFn(b, e, p), p, FALSE)
compress(b, e, p) == patternified(compressFn(b, e, p), p, FALSE)

\* span.withCycle(func_time): func_time applied to the begin and the end of the
\* span, both counted from the start of the cycle the span begins in
withCycle(span, f(_)) ==
  TimeSpan(FracAdd(sam(span.begin), f(FracSub(span.begin, sam(span.begin)))),
           FracAdd(sam(span.begin), f(FracSub(span.end, sam(span.begin)))))

\* withQuerySpan((span) => span.withCycle((t) => t.mul(d).add(s)))
zoomQuerySpan(p, s, d) == Node("zoomQuerySpan", s, d, NoV, <<p>>, Undef)
\* withHapSpan((span) => span.withCycle((t) => t.sub(s).div(d)))
zoomHapSpan(p, s, d) == Node("zoomHapSpan", s, d, NoV, <<p>>, Undef)

\* zoom: the slice [s, e) of every cycle played over the whole cycle
zoomFn(s, e, p) ==
  IF FracGte(s, e) THEN nothing
  ELSE setSteps(splitQueries(zoomHapSpan(zoomQuerySpan(p, s, FracSub(e, s)), s, FracSub(e, s))),
                mulmaybe(StepsOf(p), FracSub(e, s)))

zoom(s, e, p) == patternified(zoomFn(s, e, p), p, FALSE)

_zoom(s, e, p) == underscoreMethod(zoomFn(s, e, p), p, FALSE)
_slow(factor, p) == underscoreMethod(slowFn(factor, p), p, FALSE)

\* linger: silence for 0, else the first t (the last -t) of the cycle, repeated
lingerFn(t, p) ==
  IF FracEq(t, F0) THEN silence
  ELSE IF FracLt(t, F0) THEN _slow(t, _zoom(FracAdd(t, F1), F1, p))
  ELSE _slow(t, _zoom(F0, t, p))

_linger(t, p) == underscoreMethod(lingerFn(t, p), p, TRUE)

\* bypass: silence when on, else the pattern itself
bypassFn(on, p) == IF on # 0 THEN silence ELSE p
_bypass(on, p) == underscoreMethod(bypassFn(on, p), p, TRUE)

\* cpm: pat._fast(cpm / 60 / 1)
cpmFn(cpm, p) == _fast(FracDiv(FracDiv(cpm, Int2F(60)), F1), p)

\* p.cpm(c): withContext copies the steps the result of cpmFn has after the call,
\* which for the constant silence are those _fast has just set on it
cpm(c, p) ==
  IF IsShared(cpmFn(c, p)) THEN [withContext(cpmFn(c, p)) EXCEPT !.steps = StepsOf(p)]
  ELSE patternified(cpmFn(c, p), p, FALSE)

\* Fraction.abs
FracAbs(x) == IF FracLt(x, F0) THEN FracSub(F0, x) ELSE x

\* take: the first i steps of the pattern, the last -i steps when i < 0
takeFn(i, p) ==
  IF ~IsDef(StepsOf(p)) THEN nothing
  ELSE IF FracLte(StepsOf(p), F0) THEN nothing
  ELSE IF FracEq(i, F0) THEN nothing
  ELSE IF FracLte(FracDiv(FracAbs(i), StepsOf(p)), F0) THEN nothing
  ELSE IF FracGte(FracDiv(FracAbs(i), StepsOf(p)), F1) THEN p
  ELSE IF FracLt(i, F0) THEN zoom(FracSub(F1, FracDiv(FracAbs(i), StepsOf(p))), F1, p)
  ELSE zoom(F0, FracDiv(FracAbs(i), StepsOf(p)), p)

take(i, p) == patternified(takeFn(i, p), p, FALSE)

\* drop: take of the steps that are left, counted from the other end
dropFn(i, p) ==
  IF ~IsDef(StepsOf(p)) THEN nothing
  ELSE IF FracLt(i, F0) THEN take(FracAdd(StepsOf(p), i), p)
  ELSE take(FracSub(F0, FracSub(StepsOf(p), i)), p)

drop(i, p) == patternified(dropFn(i, p), p, FALSE)

focusFnFromZero(b, e, p) == _late(b, _fast(FracDiv(F1, FracSub(e, b)), p))

focusFn(b, e, p) ==
  _late(b, _fast(FracDiv(F1, FracSub(e, b)), _early(sam(b), p)))

_focus(b, e, p) == underscoreMethod(focusFn(b, e, p), p, FALSE)
_focusSpan(span, p) == underscoreMethod(_focus(span.begin, span.end, p), p, FALSE)

appWhole(kind, pat_func, pat_val) ==
  Node("appWhole", F0, F0, FnV(kind, 0), <<pat_func, pat_val>>, Undef)

appBoth(pat_func, pat_val) ==
  setSteps(appWhole("both", pat_func, pat_val),
           lcm(<<StepsOf(pat_val), StepsOf(pat_func)>>))

appLeft(pat_func, pat_val) ==
  Node("appLeft", F0, F0, NoV, <<pat_func, pat_val>>, StepsOf(pat_func))

appRight(pat_func, pat_val) ==
  Node("appRight", F0, F0, NoV, <<pat_func, pat_val>>, StepsOf(pat_val))

\* (a) => (b) => _composeOp(a, b, op) on numbers, op the function of the composer
\* `what`: "add_" is a => b => a + b and "sub_" is a => b => a - b
CurriedV(what) == [pat |-> <<>>, kind |-> what, num |-> 0]

_opIn(this, other, func) == appLeft(withValue(this, func), other)
_opOut(this, other, func) == appRight(withValue(this, func), other)

\* _opMix with the structure of appLeft
_opMixLeft(this, other, func) == appLeft(withValue(this, func), other)

_opMix(this, other, func) == appBoth(withValue(this, func), other)

\* pat[what][how](other), other already a pattern: sequence([other]) is other
composer(what, how, this, other) ==
  CASE how = "in" -> _opIn(this, other, CurriedV(what))
    [] how = "out" -> _opOut(this, other, CurriedV(what))
    [] how = "mix" -> _opMix(this, other, CurriedV(what))

bindWhole(kind, p) == Node("bindWhole", F0, F0, FnV(kind, 0), <<p>>, Undef)

join(p) == bindWhole("both", p)
outerJoin(p) == setSteps(bindWhole("outer", p), StepsOf(p))
innerJoin(p) == bindWhole("inner", p)

outerBind(p, func) == outerJoin(withValue(p, func))
innerBind(p, func) == innerJoin(withValue(p, func))

\* { ...a, ...b }: the controls of b, and those of a that b does not have
Spread(a, b) ==
  Sound(b.s,
        IF IsDef(b.begin) THEN b.begin ELSE a.begin,
        IF IsDef(b.end) THEN b.end ELSE a.end,
        IF IsDef(b._slices) THEN b._slices ELSE a._slices,
        IF IsDef(b.speed) THEN b.speed ELSE a.speed,
        IF b.unit # "" THEN b.unit ELSE a.unit)

\* o instanceof Object ? o : { s: o }
asObject(o) ==
  IF o.kind = "obj" THEN o.pat[1] ELSE Sound(o.num, Undef, Undef, Undef, Undef, "")

\* { begin, end, _slices: n, ...o } for a number n of slices
sliceObject(n, i, o) ==
  Spread(Sound(asObject(o).s, Fraction(i, n), Fraction(i + 1, n), Int2F(n), Undef, ""),
         asObject(o))

\* slice, not patternified: npat, ipat and opat are patterns
sliceFn(npat, ipat, opat) == setSteps(innerBind(npat, SliceNV(ipat, opat)), StepsOf(ipat))

\* splice: slice, with speed and unit computed at query time from the whole
splice(npat, ipat, opat) ==
  Node("splice", F0, F0, NoV, <<sliceFn(npat, ipat, opat)>>, StepsOf(ipat))

\* resetJoin(restart): k1 is 1 for restartJoin
resetJoin(p, restart) ==
  Node("resetJoin", IF restart THEN F1 ELSE F0, F0, NoV, <<p>>, Undef)

restartJoin(p) == resetJoin(p, TRUE)

squeezeJoin(p) == Node("squeezeJoin", F0, F0, NoV, <<p>>, Undef)

\* pick.mjs _pick for a lookup array of patterns and a pattern of integers
_pick(lookup, p, modulo) ==
  IF Len(lookup) = 0 THEN silence ELSE withValue(p, PickV(lookup, modulo))

\* the functions registered in pick.mjs, by name: _pick and a join
pickFamily(name, lookup, p) ==
  CASE name = "pick" -> innerJoin(_pick(lookup, p, FALSE))
    [] name = "pickmod" -> innerJoin(_pick(lookup, p, TRUE))
    [] name = "pickOut" -> outerJoin(_pick(lookup, p, FALSE))
    [] name = "pickmodOut" -> outerJoin(_pick(lookup, p, TRUE))
    [] name = "pickRestart" -> restartJoin(_pick(lookup, p, FALSE))
    [] name = "pickmodRestart" -> restartJoin(_pick(lookup, p, TRUE))
    [] name = "pickReset" -> resetJoin(_pick(lookup, p, FALSE), FALSE)
    [] name = "pickmodReset" -> resetJoin(_pick(lookup, p, TRUE), FALSE)
    [] name = "inhabit" -> squeezeJoin(_pick(lookup, p, FALSE))
    [] name = "inhabitmod" -> squeezeJoin(_pick(lookup, p, TRUE))

\* pick.mjs squeeze(pat, xs)
squeeze(p, xs) ==
  IF Len(xs) = 0 THEN silence ELSE squeezeJoin(withValue(p, SqueezeKeyV(xs)))

\* filterValues((val) => val != undefined)
removeUndefineds(p) == Node("removeUndefineds", F0, F0, NoV, <<p>>, StepsOf(p))

\* this.restart(other) = this.keepif.restart(other): _opRestart, then
\* removeUndefineds; sequence(other) of one pattern is the pattern
keepifRestart(this, other) == removeUndefineds(restartJoin(withValue(other, KeepIfOfV(this))))

ribbonFnReset(offset, cycles, pat_) ==
  removeUndefineds(resetJoin(withValue(slow(cycles, pure(NumV(1))),
                                       KeepIfOfV(early(offset, pat_))), FALSE))

ribbonFn(offset, cycles, pat_) == keepifRestart(early(offset, pat_), slow(cycles, pure(NumV(1))))
ribbon(offset, cycles, pat_) == patternified(ribbonFn(offset, cycles, pat_), pat_, FALSE)

\* register, Pattern.prototype[name] = function (...args): func.length of the
\* registered functions, the pattern included
Arity(name) ==
  CASE name = "rev" -> 1
    [] name = "fast" -> 2
    [] name = "ribbon" -> 3

\* `arity === 2 && args.length !== 1`: the arguments are replaced by their sequence
methodSequences(arity, nargs) == arity = 2 /\ nargs # 1

\* `else if (arity !== args.length + 1)`: the call throws
methodThrows(arity, nargs) == ~methodSequences(arity, nargs) /\ arity # nargs + 1

\* sequence(...args) of numbers
sequence(args) == fastcat([i \in 1..Len(args) |-> pure(NumV(args[i]))])

\* pfunc of fast given a pattern that is not pure: join(left.fmap(mapFn)), then
\* `result._steps = pat._steps`
fastOfPattern(factorPat, p) ==
  setSteps(innerJoin(withValue(factorPat, FastOfV(p))), StepsOf(p))

\* what the method returns when it does not throw; the arguments are integers
methodResult(name, args, p) ==
  CASE name = "rev" -> rev(p)
    [] name = "fast" ->
         IF methodSequences(Arity(name), Len(args)) THEN fastOfPattern(sequence(args), p)
         ELSE fast(Int2F(args[1]), p)
    [] name = "ribbon" -> ribbon(Int2F(args[1]), Int2F(args[2]), p)

----------------------------------------------------------------------------
(* signal.mjs: the random signal and the degradation family.  A 32-bit   *)
(* integer is the function of its bits, bit 0 the lowest, two's complement *)

TwoTo29 == 536870912

\* 2^0 .. 2^30
Pow2 ==
  <<1, 2, 4, 8, 16, 32, 64, 128, 256, 512, 1024, 2048, 4096, 8192, 16384, 32768,
    65536, 131072, 262144, 524288, 1048576, 2097152, 4194304, 8388608, 16777216,
    33554432, 67108864, 134217728, 268435456, 536870912, 1073741824>>

\* bit i of v, 0 <= v < 2^31
BitOf(v, i) == (v \div Pow2[i + 1]) % 2

\* the 32-bit integer whose bit i is F(i), kept as the tuple of its bits
Word(F(_)) ==
  <<F(0), F(1), F(2), F(3), F(4), F(5), F(6), F(7), F(8), F(9), F(10), F(11), F(12),
    F(13), F(14), F(15), F(16), F(17), F(18), F(19), F(20), F(21), F(22), F(23), F(24),
    F(25), F(26), F(27), F(28), F(29), F(30), F(31)>>

\* the 32-bit integer of v, -2^29 < v < 2^29
ToInt32(v) ==
  IF v >= 0 THEN Word(LAMBDA i : IF i >= 30 THEN 0 ELSE BitOf(v, i))
  ELSE Word(LAMBDA i : IF i >= 30 THEN 1 ELSE 1 - BitOf((-v) - 1, i))

\* (x << s) ^ x and (x >> s) ^ x, >> propagating the sign
XorShiftLeft(x, s) ==
  Word(LAMBDA i : (x[i + 1] + (IF i >= s THEN x[i - s + 1] ELSE 0)) % 2)
XorShiftRight(x, s) ==
  Word(LAMBDA i : (x[i + 1] + (IF i + s <= 31 THEN x[i + s + 1] ELSE x[32])) % 2)

xorwise(x) ==
  With(XorShiftLeft(x, 13), LAMBDA a :
    With(XorShiftRight(a, 17), LAMBDA b : XorShiftLeft(b, 5)))

\* the bits lo .. hi of x as a number, hi <= 28
RECURSIVE BitsValue(_, _, _)
BitsValue(x, lo, hi) ==
  IF lo = hi THEN x[lo + 1] * Pow2[lo + 1]
  ELSE BitsValue(x, lo, (lo + hi) \div 2) + BitsValue(x, (lo + hi) \div 2 + 1, hi)

\* Math.abs(x % 536870912) for the 32-bit integer x: for x < 0 the remainder of
\* JavaScript is -((-x) % 2^29), and -x is 2^32 minus the bits of x
AbsRem29(x) ==
  IF x[32] = 0 THEN BitsValue(x, 0, 28)
  ELSE (TwoTo29 - BitsValue(x, 0, 28)) % TwoTo29

\* floor(n * 2^29 / m) for 0 <= n < m < 2^20, ten, ten and nine bits at a time
ScaledBy29(n, m) ==
  LET q1 == (n * 1024) \div m
      r1 == (n * 1024) % m
      q2 == (r1 * 1024) \div m
      r2 == (r1 * 1024) % m
      q3 == (r2 * 512) \div m
  IN  (q1 * 1024 + q2) * 512 + q3

\* Math.trunc(_frac(x / 300) * 536870912) for the time x, in exact arithmetic
truncFrac(x) ==
  LET m == 300 * x.d
      n == JsRem(x.n, m)
  IN  IF n >= 0 THEN ScaledBy29(n, m) ELSE -ScaledBy29(-n, m)

timeToIntSeed(x) == With(ToInt32(truncFrac(x)), LAMBDA seed : xorwise(seed))

\* timeToRand(x) is k / 2^29 for this k
timeToRand(x) == With(timeToIntSeed(x), LAMBDA seed : AbsRem29(seed))

\* signal(func): one hap without whole over the query span, func(span.begin)
signal(func) == Node("signal", F0, F0, FnV(func, 0), <<>>, Undef)

rand == signal("timeToRand")

\* filterValues((v) => v > x)
filterValuesGt(x, p) == Node("filterValuesGt", x, F0, NoV, <<p>>, StepsOf(p))

\* registered with patternify = true, preserveSteps = true
degradeByWithFn(withPat, x, p) ==
  appLeft(withValue(p, FnV("constOf", 0)), filterValuesGt(x, withPat))

_degradeByWith(withPat, x, p) == underscoreMethod(degradeByWithFn(withPat, x, p), p, TRUE)

degradeByFn(x, p) == _degradeByWith(rand, x, p)

_degradeBy(x, p) == underscoreMethod(degradeByFn(x, p), p, TRUE)
degradeBy(x, p) == patternified(degradeByFn(x, p), p, TRUE)

undegradeByFn(x, p) == _degradeByWith(withValue(rand, FnV("oneMinus", 0)), x, p)

_undegradeBy(x, p) == underscoreMethod(undegradeByFn(x, p), p, TRUE)
undegradeBy(x, p) == patternified(undegradeByFn(x, p), p, TRUE)

\* sometimesBy(x, func, pat) for a number x; funcOf is func(pat._undegradeBy(1 - x)),
\* and reify(x).fmap(g) is pure(g(x))
sometimesByFn(x, p, funcOf) ==
  innerJoin(pure(PatV(stack(<<_degradeBy(x, p), funcOf>>))))

sometimesBy(x, p, funcOf) == patternified(sometimesByFn(x, p, funcOf), p, FALSE)

----------------------------------------------------------------------------
(* stepwise functions *)

\* withSteps(f): the same query, a new pattern object
withSteps(p, steps) ==
  Node("withSteps", F0, F0, NoV, <<p>>, IF IsDef(StepsOf(p)) THEN steps ELSE Undef)

\* a [time, pattern] pair as given to stepcat
TimePat(time, p) == [pat |-> p, time |-> time]

\* findsteps on a bare pattern: [x._steps ?? 1, x]
findsteps(x) == TimePat(IF IsDef(StepsOf(x)) THEN StepsOf(x) ELSE F1, x)

RECURSIVE FracSum(_)
FracSum(fs) == IF fs = <<>> THEN F0 ELSE FracAdd(Head(fs), FracSum(Tail(fs)))

\* the compressed arms of stepcat, skipping arms of length 0
RECURSIVE stepcatArms(_, _, _)
stepcatArms(timepats, begin, total) ==
  IF timepats = <<>> THEN <<>>
  ELSE LET time == Head(timepats).time
           end == FracAdd(begin, time)
       IN  IF FracEq(time, F0) THEN stepcatArms(Tail(timepats), begin, total)
           ELSE <<_compress(FracDiv(begin, total), FracDiv(end, total), Head(timepats).pat)>>
                \o stepcatArms(Tail(timepats), end, total)

stepcatOf(timepats0) ==
  LET times == SelectSeq(SeqMap(LAMBDA tp : tp.time, timepats0), IsDef)
      avg == FracDiv(FracSum(times), Int2F(Len(times)))
      timepats == SeqMap(LAMBDA tp : IF IsDef(tp.time) THEN tp ELSE TimePat(avg, tp.pat),
                         timepats0)
      total == FracSum(SeqMap(LAMBDA tp : tp.time, timepats))
  IN  IF Len(timepats0) = 0 THEN nothing
      ELSE IF Len(times) = 0 THEN fastcat(SeqMap(LAMBDA tp : tp.pat, timepats0))
      ELSE IF Len(timepats) = 1 THEN withSteps(timepats[1].pat, timepats[1].time)
      ELSE setSteps(stack(stepcatArms(timepats, F0, total)), total)

stepcat(timepats) == With(timepats, stepcatOf)

\* pace: the pattern itself when it has no steps, nothing when it has 0 steps
paceFn(targetSteps, p) ==
  IF ~IsDef(StepsOf(p)) THEN p
  ELSE IF FracEq(StepsOf(p), F0) THEN nothing
  ELSE setSteps(_fast(FracDiv(targetSteps, StepsOf(p)), p), targetSteps)

pace(targetSteps, p) == patternified(paceFn(targetSteps, p), p, FALSE)

\* polymeter of patterns without the pace of the arms
polymeterNoPace(args) ==
  LET withSteps_ == SelectSeq(args, LAMBDA arg : IsDef(StepsOf(arg)))
      steps == lcm(SeqMap(StepsOf, withSteps_))
  IN  IF Len(withSteps_) = 0 THEN silence
      ELSE IF FracEq(steps, F0) THEN nothing
      ELSE setSteps(stack(withSteps_), steps)

\* polymeter of patterns: the arms that have steps, each paced to the lcm of the
\* steps, stacked
polymeter(args) ==
  LET withSteps_ == SelectSeq(args, LAMBDA arg : IsDef(StepsOf(arg)))
      steps == lcm(SeqMap(StepsOf, withSteps_))
  IN  IF Len(withSteps_) = 0 THEN silence
      ELSE IF FracEq(steps, F0) THEN nothing
      ELSE setSteps(stack(SeqMap(LAMBDA x : pace(steps, x), withSteps_)), steps)

\* expand and contract: withSteps, which leaves undefined steps undefined
expandFn(factor, p) == withSteps(p, mulmaybe(StepsOf(p), factor))
expand(factor, p) == patternified(expandFn(factor, p), p, FALSE)

contractFn(factor, p) ==
  withSteps(p, IF IsDef(StepsOf(p)) THEN FracDiv(StepsOf(p), factor) ELSE Undef)
contract(factor, p) == patternified(contractFn(factor, p), p, FALSE)

\* the ranges of shrinklist from the i-th on: [seg * i, 1] from the start,
\* [0, 1 - seg * i] from the end, while i < times and the range is not inverted
RECURSIVE shrinkRanges(_, _, _, _)
shrinkRanges(seg, i, times, fromstart) ==
  IF ~FracLt(Int2F(i), times) THEN <<>>
  ELSE IF fromstart
       THEN IF FracGt(FracMul(seg, Int2F(i)), F1) THEN <<>>
            ELSE <<TimeSpan(FracMul(seg, Int2F(i)), F1)>>
                 \o shrinkRanges(seg, i + 1, times, fromstart)
       ELSE IF FracLt(FracSub(F1, FracMul(seg, Int2F(i))), F0) THEN <<>>
            ELSE <<TimeSpan(F0, FracSub(F1, FracMul(seg, Int2F(i))))>>
                 \o shrinkRanges(seg, i + 1, times, fromstart)

\* shrinklist(amount) with a number: one zoom for each of the steps of the pattern
shrinklist(amount, p) ==
  IF ~IsDef(StepsOf(p)) THEN <<p>>
  ELSE SeqMap(LAMBDA x : zoom(x.begin, x.end, p),
              shrinkRanges(FracMul(FracDiv(F1, StepsOf(p)), FracAbs(amount)), 0, StepsOf(p),
                           FracGt(amount, F0)))

\* Fraction(1).div(pat._steps) in shrinklist divides by zero
shrinkRaises(p) == IsDef(StepsOf(p)) /\ FracEq(StepsOf(p), F0)

shrinkFn(amount, p) ==
  IF ~IsDef(StepsOf(p)) THEN nothing
  ELSE setSteps(stepcat(SeqMap(findsteps, shrinklist(amount, p))),
                FracSum(SeqMap(StepsOf, shrinklist(amount, p))))

shrink(amount, p) == patternified(shrinkFn(amount, p), p, FALSE)

\* list.reverse()
Reversed(list) == [i \in 1..Len(list) |-> list[Len(list) + 1 - i]]

growFn(amount, p) ==
  IF ~IsDef(StepsOf(p)) THEN nothing
  ELSE setSteps(stepcat(SeqMap(findsteps, Reversed(shrinklist(FracSub(F0, amount), p)))),
                FracSum(SeqMap(StepsOf, shrinklist(FracSub(F0, amount), p))))

grow(amount, p) == patternified(growFn(amount, p), p, FALSE)

\* _retime: occupied_perc and occupied_steps are computed with the array index in
\* the place of the pattern, so both are 0 and total_steps is undefined
_retime(timedHaps) ==
  LET total_steps == Undef
      adjust(dur, p) ==
        IF ~IsDef(StepsOf(p)) THEN TimePat(mulmaybe(dur, total_steps), p)
        ELSE TimePat(StepsOf(p), p)
  IN  SeqMap(LAMBDA x : adjust(x.time, x.pat), timedHaps)

_match(span, hap_p) ==
  Hap(hap_p.whole, intersection(span, hap_p.part), hap_p.value)

_fitslice(span, haps_) ==
  SelectSeq(SeqMap(LAMBDA hap : _match(span, hap), haps_), LAMBDA hap : HasSpan(hap.part))

\* uniqsortr: sorted, without duplicates
RECURSIVE SortFracs(_)
SortFracs(S) ==
  IF S = {} THEN <<>>
  ELSE LET m == CHOOSE x \in S : \A y \in S : FracLte(x, y)
       IN  <<m>> \o SortFracs(S \ {m})

_slicesOf(haps_) ==
  LET breakpoints == UNION {{haps_[i].part.begin, haps_[i].part.end} : i \in 1..Len(haps_)}
      unique == SortFracs({F0, F1} \cup breakpoints)
      slice(i) ==
        TimePat(FracSub(unique[i + 1], unique[i]),
                stack(SeqMap(LAMBDA x : withContext(x.value.pat[1]),
                             _fitslice(TimeSpan(unique[i], unique[i + 1]), haps_))))
  IN  SeqMap(slice, [i \in 1..(Len(unique) - 1) |-> i])

_slices(haps_) == With(haps_, _slicesOf)

----------------------------------------------------------------------------
(* queries: one operator per query closure of pattern.mjs *)

\* hap_func.value(hap_val.value), when the function returns
Apply(f, x) ==
  CASE f.kind = "id" -> x
    [] f.kind = "add" -> NumV(x.num + f.num)
    [] f.kind = "keepif" -> IF f.num # 0 THEN x ELSE UndefV
    [] f.kind = "keepifOf" -> PatV(withValue(f.pat[1], KeepIfV(x)))
    [] f.kind = "throwOn" -> x
    [] f.kind = "fastOf" -> PatV(fastFn(Int2F(x.num), f.pat[1]))
    [] f.kind = "constOf" -> ConstV(x)
    [] f.kind = "const" -> f.pat[1]
    [] f.kind = "oneMinus" -> RandV(TwoTo29 - x.num)
    [] f.kind = "add_" -> FnV("add", x.num)
    [] f.kind = "sub_" -> FnV("subFrom", x.num)
    [] f.kind = "subFrom" -> NumV(f.num - x.num)
    [] f.kind = "withSpeed" -> ObjV(Sound(x.num, Undef, Undef, Undef, Int2F(f.num), ""))
    [] f.kind = "withUnit" -> ObjV(Sound(x.num, Undef, Undef, Undef, Undef, "s"))
    [] f.kind = "withSpeedUnit" -> ObjV(Sound(x.num, Undef, Undef, Undef, Int2F(f.num), "s"))
    [] f.kind = "pickModulo" -> ArrayAt(f.pat, JsRem(x.num, Len(f.pat)))
    [] f.kind = "pickClamp" -> ArrayAt(f.pat, clamp(x.num, 0, Len(f.pat) - 1))
    [] f.kind = "squeezeKey" -> ArrayAt(f.pat, _mod(x.num, Len(f.pat)))
    [] f.kind = "sliceN" -> PatV(outerBind(f.pat[1], SliceIV(x.num, f.pat[2])))
    [] f.kind = "sliceI" -> PatV(outerBind(f.pat[1], SliceOV(f.num, pure(x))))
    [] f.kind = "sliceO" -> PatV(pure(ObjV(sliceObject(f.num, f.pat[1].v.num, x))))

RECURSIVE Query(_, _)

pureQuery(p, state) ==
  SeqMap(LAMBDA subspan : Hap(wholeCycle(subspan.begin), subspan, p.v),
         spanCycles(state.span))

withValueQuery(p, state) ==
  SeqMap(LAMBDA hap : Hap(hap.whole, hap.part, Apply(p.v, hap.value)),
         Query(p.kids[1], state))

withQueryTimeQuery(p, state) ==
  Query(p.kids[1], setSpan(state, withTime(state.span, LAMBDA t : TimeFn(p, t))))

withHapTimeQuery(p, state) ==
  SeqMap(LAMBDA hap : hapWithSpan(hap, LAMBDA span : withTime(span, LAMBDA t : TimeFn(p, t))),
         Query(p.kids[1], state))

\* a query that is not split at the cycle boundaries
splitQueriesQueryWhole(p, state) == Query(p.kids[1], state)

splitQueriesQuery(p, state) ==
  flatten(SeqMap(LAMBDA subspan : Query(p.kids[1], setSpan(state, subspan)),
                 spanCycles(state.span)))

discreteOnlyQuery(p, state) ==
  SelectSeq(Query(p.kids[1], state), LAMBDA hap : HasSpan(hap.whole))

\* state.controls._cps || 1
cpsOr1(controls) ==
  IF ~IsDef(controls.cps) \/ FracEq(controls.cps, F0) THEN F1 ELSE controls.cps

\* v.speed || 1
speedOr1(v) == IF ~IsDef(v.speed) \/ FracEq(v.speed, F0) THEN F1 ELSE v.speed

\* the value splice gives an event: { ...{ speed, unit: 'c' }, ...v }
spliceValue(cps, hap) ==
  With(hap.value.pat[1],
       LAMBDA v :
         ObjV(Spread(Sound(v.s, Undef, Undef, Undef,
                           FracMul(FracDiv(FracDiv(cps, v._slices),
                                           FracSub(hap.whole.end, hap.whole.begin)),
                                   speedOr1(v)),
                           "c"),
                     v)))

spliceQuery(p, state) ==
  SeqMap(LAMBDA hap : Hap(hap.whole, hap.part, spliceValue(cpsOr1(state.controls), hap)),
         Query(p.kids[1], state))

\* the query of pat.withQuerySpan(...) in zoom; k1 is s, k2 is d
zoomQuerySpanQuery(p, state) ==
  Query(p.kids[1],
        setSpan(state, withCycle(state.span, LAMBDA t : FracAdd(FracMul(t, p.k2), p.k1))))

\* the query of pat.withHapSpan(...) in zoom
zoomHapSpanQuery(p, state) ==
  SeqMap(LAMBDA hap : hapWithSpan(hap,
           LAMBDA span : withCycle(span, LAMBDA t : FracDiv(FracSub(t, p.k1), p.k2))),
         Query(p.kids[1], state))

\* stack: the arms' events, arm after arm
stackQueryReversed(p, state) ==
  flatten(SeqMap(LAMBDA i : Query(p.kids[Len(p.kids) + 1 - i], state),
                 [i \in 1..Len(p.kids) |-> i]))

stackQuery(p, state) ==
  flatten(SeqMap(LAMBDA arm : Query(arm, state), p.kids))

\* slowcat's query (run once per cycle by splitQueries): arm sam mod n, its
\* cycles shifted so that none is skipped
slowcatOffset(begin, n) ==
  FracSub(FracFloor(begin), FracFloor(FracDiv(begin, Int2F(n))))

slowcatQueryNoOffset(p, state) ==
  LET n == Len(p.kids)
  IN  IF n = 0 THEN <<>>
      ELSE Query(p.kids[_mod(FloorInt(state.span.begin), n) + 1], state)

slowcatQuery(p, state) ==
  LET span == state.span
      n == Len(p.kids)
      pat_n == _mod(FloorInt(span.begin), n)
      offset == slowcatOffset(span.begin, n)
  IN  IF n = 0 THEN <<>>
      ELSE SeqMap(LAMBDA hap : hapWithSpan(hap, LAMBDA sp : withTime(sp, LAMBDA t : FracAdd(t, offset))),
                  Query(p.kids[pat_n + 1],
                        setSpan(state, withTime(span, LAMBDA t : FracSub(t, offset)))))

\* slowcatPrime's query: pats[Math.floor(begin) % pats.length], which is
\* undefined for a negative remainder, and then no events
slowcatPrimeQuery(p, state) ==
  LET pat_n == JsRem(FloorInt(state.span.begin), Len(p.kids))
  IN  IF pat_n < 0 THEN <<>> ELSE Query(p.kids[pat_n + 1], state)

\* rev's query (run once per cycle by splitQueries)
reflectNoCycle(to_reflect, cycle, next_cycle) ==
  LET reflected == withTime(to_reflect, LAMBDA time : FracSub(next_cycle, time))
  IN  TimeSpan(reflected.end, reflected.begin)

reflect(to_reflect, cycle, next_cycle) ==
  LET reflected == withTime(to_reflect, LAMBDA time : FracAdd(cycle, FracSub(next_cycle, time)))
  IN  TimeSpan(reflected.end, reflected.begin)

revQuery(p, state) ==
  LET span == state.span
      cycle == sam(span.begin)
      next_cycle == nextSam(span.begin)
  IN  SeqMap(LAMBDA hap : hapWithSpan(hap, LAMBDA sp : reflect(sp, cycle, next_cycle)),
             Query(p.kids[1], setSpan(state, reflect(span, cycle, next_cycle))))

\* fastGap: qf maps the query span, ef maps each hap back
fastGap_qf(span, factor) ==
  LET cycle == sam(span.begin)
      bpos == FracMin(FracMul(FracSub(span.begin, cycle), factor), F1)
      epos == FracMin(FracMul(FracSub(span.end, cycle), factor), F1)
  IN  IF FracGte(bpos, F1) THEN NoSpan
      ELSE TimeSpan(FracAdd(cycle, bpos), FracAdd(cycle, epos))

fastGap_efWholeUnscaled(hap, factor) ==
  LET begin == hap.part.begin
      end == hap.part.end
      cycle == sam(begin)
      beginPos == FracMin(FracDiv(FracSub(begin, cycle), factor), F1)
      endPos == FracMin(FracDiv(FracSub(end, cycle), factor), F1)
      newPart == TimeSpan(FracAdd(cycle, beginPos), FracAdd(cycle, endPos))
  IN  Hap(hap.whole, newPart, hap.value)

fastGap_ef(hap, factor) ==
  LET begin == hap.part.begin
      end == hap.part.end
      cycle == sam(begin)
      beginPos == FracMin(FracDiv(FracSub(begin, cycle), factor), F1)
      endPos == FracMin(FracDiv(FracSub(end, cycle), factor), F1)
      newPart == TimeSpan(FracAdd(cycle, beginPos), FracAdd(cycle, endPos))
      newWhole ==
        IF ~HasSpan(hap.whole) THEN NoSpan
        ELSE TimeSpan(
               FracSub(newPart.begin, FracDiv(FracSub(begin, hap.whole.begin), factor)),
               FracAdd(newPart.end, FracDiv(FracSub(hap.whole.end, end), factor)))
  IN  Hap(newWhole, newPart, hap.value)

\* withQuerySpanMaybe(qf)
fastGapQfQuery(p, state) ==
  LET newSpan == fastGap_qf(state.span, p.k1)
  IN  IF ~HasSpan(newSpan) THEN <<>> ELSE Query(p.kids[1], setSpan(state, newSpan))

\* withHap(ef)
fastGapEfQuery(p, state) ==
  SeqMap(LAMBDA hap : fastGap_ef(hap, p.k1), Query(p.kids[1], state))

\* intersection_e throws when the spans do not intersect; the spans it is
\* given here are wholes of haps whose parts intersect
intersection_e(a, b) == intersection(a, b)

\* appBoth's whole_func
whole_func_left(span_a, span_b) == span_a

whole_func(span_a, span_b) ==
  IF ~HasSpan(span_a) \/ ~HasSpan(span_b) THEN NoSpan
  ELSE intersection_e(span_a, span_b)

appWholeQuery(p, state) ==
  LET apply(hap_func, hap_val) ==
        Hap(whole_func(hap_func.whole, hap_val.whole),
            intersection(hap_func.part, hap_val.part),
            Apply(hap_func.value, hap_val.value))
      rows(hap_vals) ==
        flatten(SeqMap(LAMBDA hap_func :
                         SelectSeq(SeqMap(LAMBDA hap_val : apply(hap_func, hap_val), hap_vals),
                                   LAMBDA hap : HasSpan(hap.part)),
                       Query(p.kids[1], state)))
  IN  With(Query(p.kids[2], state), rows)

appLeftQueryNoIntersect(p, state) ==
  LET row(hap_func) ==
        SeqMap(LAMBDA hap_val : Hap(hap_func.whole, hap_val.part,
                                    Apply(hap_func.value, hap_val.value)),
               Query(p.kids[2], setSpan(state, wholeOrPart(hap_func))))
  IN  flatten(SeqMap(row, Query(p.kids[1], state)))

appLeftQuery(p, state) ==
  LET row(hap_func) ==
        SelectSeq(
          SeqMap(LAMBDA hap_val : Hap(hap_func.whole,
                                      intersection(hap_func.part, hap_val.part),
                                      Apply(hap_func.value, hap_val.value)),
                 Query(p.kids[2], setSpan(state, wholeOrPart(hap_func)))),
          LAMBDA hap : HasSpan(hap.part))
  IN  flatten(SeqMap(row, Query(p.kids[1], state)))

appRightQuery(p, state) ==
  LET row(hap_val) ==
        SelectSeq(
          SeqMap(LAMBDA hap_func : Hap(hap_val.whole,
                                       intersection(hap_func.part, hap_val.part),
                                       Apply(hap_func.value, hap_val.value)),
                 Query(p.kids[1], setSpan(state, wholeOrPart(hap_val)))),
          LAMBDA hap : HasSpan(hap.part))
  IN  flatten(SeqMap(row, Query(p.kids[2], state)))

choose_whole_inner(kind, a, b) == b

\* bindWhole(choose_whole, id): the joins other than reset, restart, squeeze
choose_whole(kind, a, b) ==
  CASE kind = "outer" -> a
    [] kind = "inner" -> b
    [] kind = "both" -> IF ~HasSpan(a) \/ ~HasSpan(b) THEN NoSpan
                        ELSE intersection_e(a, b)

bindWholeQuery(p, state) ==
  LET match(a) ==
        SeqMap(LAMBDA b : Hap(choose_whole(p.v.kind, a.whole, b.whole), b.part, b.value),
               Query(a.value.pat[1], setSpan(state, a.part)))
  IN  flatten(SeqMap(match, Query(p.kids[1], state)))

resetJoinQuery(p, state) ==
  LET restart == p.k1 = F1
      one(outer_hap) ==
        SelectSeq(
          SeqMap(LAMBDA inner_hap :
                   Hap(IF HasSpan(inner_hap.whole)
                       THEN intersection(inner_hap.whole, outer_hap.whole)
                       ELSE NoSpan,
                       intersection(inner_hap.part, outer_hap.part),
                       inner_hap.value),
                 Query(late(IF restart THEN outer_hap.whole.begin
                            ELSE cyclePos(outer_hap.whole.begin),
                            outer_hap.value.pat[1]),
                       state)),
          LAMBDA hap : HasSpan(hap.part))
  IN  flatten(SeqMap(one, Query(discreteOnly(p.kids[1]), state)))

squeezeJoinQuery(p, state) ==
  LET munge(outer, inner) ==
        LET whole == IF HasSpan(inner.whole) /\ HasSpan(outer.whole)
                     THEN intersection(inner.whole, outer.whole)
                     ELSE NoSpan
            part == intersection(inner.part, outer.part)
            dropped == (HasSpan(inner.whole) /\ HasSpan(outer.whole) /\ ~HasSpan(whole))
                       \/ ~HasSpan(part)
        IN  Hap(whole, IF dropped THEN NoSpan ELSE part, inner.value)
      flatHap(outerHap) ==
        SeqMap(LAMBDA innerHap : munge(outerHap, innerHap),
               Query(_focusSpan(wholeOrPart(outerHap), outerHap.value.pat[1]),
                     setSpan(state, outerHap.part)))
  IN  SelectSeq(flatten(SeqMap(flatHap, Query(discreteOnly(p.kids[1]), state))),
                LAMBDA hap : HasSpan(hap.part))

stepJoinQuery(p, state) ==
  LET shifted == early(sam(state.span.begin), p.kids[1])
  IN  With(Query(shifted, setSpan(state, TimeSpan(F0, F1))),
           LAMBDA haps_ : Query(stepcat(_retime(_slices(haps_))), state))

\* the value func(t) of a signal
SignalValue(func, t) ==
  CASE func = "timeToRand" -> RandV(timeToRand(t))

signalQuery(p, state) ==
  <<Hap(NoSpan, state.span, SignalValue(p.v.kind, state.span.begin))>>

\* v > x for a value v of rand or 1 - rand and a number x = n / d, d dividing 2^29
GreaterThan(v, x) == v.num > x.n * (TwoTo29 \div x.d)

filterValuesGtQuery(p, state) ==
  SelectSeq(Query(p.kids[1], state), LAMBDA hap : GreaterThan(hap.value, p.k1))

QueryNode(p, state) ==
  CASE p.op = "pure" -> pureQuery(p, state)
    [] p.op = "signal" -> signalQuery(p, state)
    [] p.op = "filterValuesGt" -> filterValuesGtQuery(p, state)
    [] p.op \in {"silence", "nothing"} -> <<>>
    [] p.op = "withValue" -> withValueQuery(p, state)
    [] p.op = "withQueryTime" -> withQueryTimeQuery(p, state)
    [] p.op = "withHapTime" -> withHapTimeQuery(p, state)
    [] p.op \in {"withContext", "withSteps"} -> Query(p.kids[1], state)
    [] p.op = "removeUndefineds" ->
         SelectSeq(Query(p.kids[1], state), LAMBDA hap : hap.value # UndefV)
    [] p.op = "splitQueries" -> splitQueriesQuery(p, state)
    [] p.op = "discreteOnly" -> discreteOnlyQuery(p, state)
    [] p.op = "splice" -> spliceQuery(p, state)
    [] p.op = "zoomQuerySpan" -> zoomQuerySpanQuery(p, state)
    [] p.op = "zoomHapSpan" -> zoomHapSpanQuery(p, state)
    [] p.op = "stack" -> stackQuery(p, state)
    [] p.op = "slowcat" -> slowcatQuery(p, state)
    [] p.op = "slowcatPrime" -> slowcatPrimeQuery(p, state)
    [] p.op = "rev" -> revQuery(p, state)
    [] p.op = "fastGap_qf" -> fastGapQfQuery(p, state)
    [] p.op = "fastGap_ef" -> fastGapEfQuery(p, state)
    [] p.op = "appWhole" -> appWholeQuery(p, state)
    [] p.op = "appLeft" -> appLeftQuery(p, state)
    [] p.op = "appRight" -> appRightQuery(p, state)
    [] p.op = "bindWhole" -> bindWholeQuery(p, state)
    [] p.op = "resetJoin" -> resetJoinQuery(p, state)
    [] p.op = "squeezeJoin" -> squeezeJoinQuery(p, state)
    [] p.op = "stepJoin" -> stepJoinQuery(p, state)

\* pat.query(state)
Query(pat_, state_) ==
  CHOOSE r \in {QueryNode(p, state) : p \in {pat_}, state \in {state_}} : TRUE

\* a.intersection_e(b) throws: the spans do not intersect
intersection_eThrows(a, b) == HasSpan(a) /\ HasSpan(b) /\ ~HasSpan(intersection(a, b))

\* pat.query(state) throws: an intersection_e of wholes that do not intersect, or
\* a division by zero, somewhere in the queries it makes
RECURSIVE Throws(_, _)

appWholeThrows(p, state) ==
  \/ Throws(p.kids[1], state)
  \/ Throws(p.kids[2], state)
  \/ /\ p.v.kind = "both"
     /\ \E hap_func \in Range(Query(p.kids[1], state)) :
          \E hap_val \in Range(Query(p.kids[2], state)) :
            /\ HasSpan(intersection(hap_func.part, hap_val.part))
            /\ intersection_eThrows(hap_func.whole, hap_val.whole)

appLeftThrows(p, state) ==
  \/ Throws(p.kids[1], state)
  \/ \E hap_func \in Range(Query(p.kids[1], state)) :
       Throws(p.kids[2], setSpan(state, wholeOrPart(hap_func)))

appRightThrows(p, state) ==
  \/ Throws(p.kids[2], state)
  \/ \E hap_val \in Range(Query(p.kids[2], state)) :
       Throws(p.kids[1], setSpan(state, wholeOrPart(hap_val)))

bindWholeThrows(p, state) ==
  \/ Throws(p.kids[1], state)
  \/ \E a \in Range(Query(p.kids[1], state)) :
       \/ a.value.kind = "undefined"
       \/ Throws(a.value.pat[1], setSpan(state, a.part))
       \/ /\ p.v.kind = "both"
          /\ \E b \in Range(Query(a.value.pat[1], setSpan(state, a.part))) :
               intersection_eThrows(a.whole, b.whole)

resetJoinThrows(p, state) ==
  \/ Throws(p.kids[1], state)
  \/ \E outer_hap \in Range(Query(discreteOnly(p.kids[1]), state)) :
       outer_hap.value.kind = "undefined"
  \/ \E outer_hap \in Range(Query(discreteOnly(p.kids[1]), state)) :
       Throws(late(IF p.k1 = F1 THEN outer_hap.whole.begin
                   ELSE cyclePos(outer_hap.whole.begin),
                   outer_hap.value.pat[1]),
              state)

\* _focus divides by the length of the outer whole
squeezeJoinThrows(p, state) ==
  \/ Throws(p.kids[1], state)
  \/ \E outerHap \in Range(Query(discreteOnly(p.kids[1]), state)) :
       \/ outerHap.value.kind = "undefined"
       \/ FracEq(wholeOrPart(outerHap).begin, wholeOrPart(outerHap).end)
       \/ Throws(_focusSpan(wholeOrPart(outerHap), outerHap.value.pat[1]),
                 setSpan(state, outerHap.part))

stepJoinThrows(p, state) ==
  LET shifted == early(sam(state.span.begin), p.kids[1])
      first == setSpan(state, TimeSpan(F0, F1))
  IN  \/ Throws(shifted, first)
      \/ With(Query(shifted, first),
              LAMBDA haps_ : Throws(stepcat(_retime(_slices(haps_))), state))

ThrowsNode(p, state) ==
  CASE p.op \in {"pure", "silence", "nothing", "signal"} -> FALSE
    [] p.op = "withValue" ->
         \/ Throws(p.kids[1], state)
         \/ \E hap \in Range(Query(p.kids[1], state)) : ApplyThrows(p.v, hap.value)
    [] p.op \in {"withHapTime", "withContext", "withSteps", "discreteOnly",
                 "fastGap_ef", "removeUndefineds", "filterValuesGt", "zoomHapSpan"} ->
         Throws(p.kids[1], state)
    [] p.op = "withQueryTime" ->
         Throws(p.kids[1], setSpan(state, withTime(state.span, LAMBDA t : TimeFn(p, t))))
    [] p.op = "splice" ->
         \/ Throws(p.kids[1], state)
         \/ \E hap \in Range(Query(p.kids[1], state)) : ~HasSpan(hap.whole)
    [] p.op = "zoomQuerySpan" ->
         Throws(p.kids[1],
                setSpan(state, withCycle(state.span, LAMBDA t : FracAdd(FracMul(t, p.k2), p.k1))))
    [] p.op = "splitQueries" ->
         \E subspan \in Range(spanCycles(state.span)) : Throws(p.kids[1], setSpan(state, subspan))
    [] p.op = "stack" -> \E arm \in Range(p.kids) : Throws(arm, state)
    [] p.op = "slowcatPrime" ->
         /\ JsRem(FloorInt(state.span.begin), Len(p.kids)) >= 0
         /\ Throws(p.kids[JsRem(FloorInt(state.span.begin), Len(p.kids)) + 1], state)
    [] p.op = "slowcat" ->
         /\ Len(p.kids) > 0
         /\ Throws(p.kids[_mod(FloorInt(state.span.begin), Len(p.kids)) + 1],
                   setSpan(state, withTime(state.span,
                     LAMBDA t : FracSub(t, slowcatOffset(state.span.begin, Len(p.kids))))))
    [] p.op = "rev" ->
         Throws(p.kids[1],
                setSpan(state, reflect(state.span, sam(state.span.begin),
                                       nextSam(state.span.begin))))
    [] p.op = "fastGap_qf" ->
         /\ HasSpan(fastGap_qf(state.span, p.k1))
         /\ Throws(p.kids[1], setSpan(state, fastGap_qf(state.span, p.k1)))
    [] p.op = "appWhole" -> appWholeThrows(p, state)
    [] p.op = "appLeft" -> appLeftThrows(p, state)
    [] p.op = "appRight" -> appRightThrows(p, state)
    [] p.op = "bindWhole" -> bindWholeThrows(p, state)
    [] p.op = "resetJoin" -> resetJoinThrows(p, state)
    [] p.op = "squeezeJoin" -> squeezeJoinThrows(p, state)
    [] p.op = "stepJoin" -> stepJoinThrows(p, state)

Throws(pat_, state_) ==
  CHOOSE r \in {ThrowsNode(p, state) : p \in {pat_}, state \in {state_}} : TRUE

queryArcNoCatch(p, begin, end) == Query(p, State(TimeSpan(begin, end), NoControls))

\* queryArc(begin, end, controls): the events, or none when the query throws
queryArc(p, begin, end) ==
  IF Throws(p, State(TimeSpan(begin, end), NoControls)) THEN <<>>
  ELSE Query(p, State(TimeSpan(begin, end), NoControls))

\* queryArc(begin, end, controls) with controls given
queryArcControls(p, begin, end, controls) ==
  IF Throws(p, State(TimeSpan(begin, end), controls)) THEN <<>>
  ELSE Query(p, State(TimeSpan(begin, end), controls))

\* stepJoin: the steps are those of the first cycle, computed at construction
stepJoin(pp) ==
  Node("stepJoin", F0, F0, NoV, <<pp>>,
       StepsOf(stepcat(_retime(_slices(queryArc(pp, F0, F1))))))

----------------------------------------------------------------------------
(* the caller: builds a pattern call by call and queries it *)

\* factors given to fast and slow
Factors == {Int2F(2), Fraction(-1, 1)}
SlowFactors == {Int2F(2)}
\* offsets given to early and late
Offsets == {Fraction(1, 3)}
\* patterns given as further arms
Arms == {pure(NumV(2)), fastcat(<<pure(NumV(2)), pure(NumV(3))>>)}
\* a pattern of two steps given as a further arm
TwoSteps == fastcat(<<pure(NumV(2)), pure(NumV(3))>>)
\* patterns of functions given to the applicatives
FuncPats == {fastcat(<<pure(FnV("add", 1)), pure(FnV("id", 0))>>)}
\* begin/end pairs given to compress: valid, b > e, b = e
CompressArgs == {<<Fraction(1, 4), Fraction(3, 4)>>, <<Fraction(3, 4), Fraction(1, 4)>>,
                 <<Fraction(1, 2), Fraction(1, 2)>>}
\* spans given to queryArc: every cycle -MaxCycle .. MaxCycle as a whole, and in a
\* cycle before and a cycle after 0 a part of the cycle and a span over two cycles
QuerySpans ==
  {TimeSpan(Int2F(c), Int2F(c + 1)) : c \in (-MaxCycle)..MaxCycle}
  \cup {TimeSpan(FracAdd(Int2F(c), o[1]), FracAdd(Int2F(c), o[2])) :
          c \in {-1, 1},
          o \in {<<Fraction(1, 3), Fraction(5, 6)>>, <<Fraction(1, 2), Fraction(3, 2)>>}}

Init ==
  /\ pat = pure(NumV(1))
  /\ ops = 0
  /\ lastOp = "pure"
  /\ arms = <<>>
  /\ qspan = NoSpan
  /\ haps = <<>>
  /\ queried = FALSE
  /\ silenceSteps = F1
  /\ nothingSteps = F0
  /\ held = silence
  /\ heldSpan = NoSpan
  /\ heldHaps = <<>>
  /\ raised = FALSE
  /\ context = NoContext
  /\ attached = <<>>
  /\ called = <<>>
  /\ qcontrols = NoControls

\* a combinator call that returns p
Built(p, op, given) ==
  /\ pat' = p
  /\ ops' = ops + 1
  /\ lastOp' = op
  /\ arms' = given
  /\ qspan' = NoSpan
  /\ haps' = <<>>
  /\ queried' = FALSE
  /\ raised' = FALSE
  /\ UNCHANGED <<silenceSteps, nothingSteps, held, heldSpan, heldHaps>>
  /\ UNCHANGED <<context, attached, called, qcontrols>>

\* a combinator call that throws: the caller keeps what it has
Raised(op, given) ==
  /\ ops' = ops + 1
  /\ lastOp' = op
  /\ arms' = given
  /\ raised' = TRUE
  /\ UNCHANGED <<pat, qspan, haps, queried, silenceSteps, nothingSteps,
                 held, heldSpan, heldHaps>>
  /\ UNCHANGED <<context, attached, called, qcontrols>>

DoFast(k) == ops < MaxOps /\ Built(fast(k, pat), "fast", <<>>)
DoSlow(k) == ops < MaxOps /\ Built(slow(k, pat), "slow", <<>>)
DoEarly(t) == ops < MaxOps /\ Built(early(t, pat), "early", <<>>)
DoLate(t) == ops < MaxOps /\ Built(late(t, pat), "late", <<>>)
DoRev == ops < MaxOps /\ Built(rev(pat), "rev", <<>>)

\* arms holds b and e, each with the pattern compress was called on
DoCompress(b, e) ==
  /\ ops < MaxOps
  /\ IF compressRaises(b, e) THEN Raised("compress raised", <<TimePat(b, pat), TimePat(e, pat)>>)
     ELSE Built(compress(b, e, pat), "compress", <<TimePat(b, pat), TimePat(e, pat)>>)

DoStack(q) == ops < MaxOps /\ Built(stack(<<pat, q>>), "stack", <<pat, q>>)

\* pat is the second arm, so that its cycles are the ones shifted
DoSlowcat(qs) == ops < MaxOps /\ Built(slowcat(qs), "slowcat", qs)

DoFastcat(qs) == ops < MaxOps /\ Built(fastcat(qs), "fastcat", qs)

DoAppLeft(f) == ops < MaxOps /\ Built(appLeft(f, pat), "appLeft", <<>>)
DoAppRight(f) == ops < MaxOps /\ Built(appRight(f, pat), "appRight", <<>>)
DoAppBoth(f) == ops < MaxOps /\ Built(appBoth(f, pat), "appBoth", <<>>)

\* pat.queryArc(span.begin, span.end), once for each pattern built: a second
\* query of pat changes nothing but qspan and haps
QueryArc(span) ==
  /\ ~queried
  /\ qspan' = span
  /\ haps' = queryArc(pat, span.begin, span.end)
  /\ queried' = TRUE
  /\ raised' = FALSE
  /\ UNCHANGED <<pat, ops, lastOp, arms, silenceSteps, nothingSteps, held, heldSpan, heldHaps>>
  /\ qcontrols' = NoControls
  /\ UNCHANGED <<context, attached, called>>

Next ==
  \/ \E k \in Factors : DoFast(k)
  \/ \E k \in SlowFactors : DoSlow(k)
  \/ \E t \in Offsets : DoEarly(t)
  \/ \E t \in Offsets : DoLate(t)
  \/ DoRev
  \/ \E be \in CompressArgs : DoCompress(be[1], be[2])
  \/ DoStack(TwoSteps)
  \/ DoSlowcat(<<TwoSteps, pat>>)
  \/ DoSlowcat(<<pat, TwoSteps, pat>>)
  \/ \E q \in Arms : DoFastcat(<<pat, q>>)
  \/ DoFastcat(<<pat>>)
  \/ \E f \in FuncPats : DoAppLeft(f)
  \/ \E f \in FuncPats : DoAppRight(f)
  \/ \E f \in FuncPats : DoAppBoth(f)
  \/ \E span \in QuerySpans : QueryArc(span)

Spec == Init /\ [][Next]_vars

\* the caller of the algebraic laws: time transformations and concatenations
NextAlg ==
  \/ DoFast(Int2F(2))
  \/ DoSlow(Int2F(2))
  \/ \E t \in Offsets : DoEarly(t)
  \/ DoRev
  \/ DoCompress(Fraction(1, 4), Fraction(3, 4))
  \/ DoStack(TwoSteps)
  \/ DoSlowcat(<<TwoSteps, pat>>)
  \/ DoFastcat(<<pat, pure(NumV(2))>>)
  \/ \E span \in QuerySpans : QueryArc(span)

SpecAlg == Init /\ [][NextAlg]_vars

\* a pattern of patterns made of pat: pat and another pattern in turn, each for
\* three quarters of a cycle
PatOfPats == slow(Fraction(3, 2), fastcat(<<pure(PatV(pat)), pure(PatV(TwoSteps))>>))

\* zero-width spans given to queryArc
PointSpans ==
  {TimeSpan(FracAdd(Int2F(c), o), FracAdd(Int2F(c), o)) :
     c \in {-1, 0}, o \in {F0, Fraction(1, 2)}}

DoFastGap(k) == ops < MaxOps /\ Built(fastGap(k, pat), "fastGap", <<>>)
\* a join keeps the pattern of patterns in arms
DoJoin(pp) == ops < MaxOps /\ Built(join(pp), "join", <<pp>>)
DoOuterJoin(pp) == ops < MaxOps /\ Built(outerJoin(pp), "outerJoin", <<pp>>)
DoInnerJoin(pp) == ops < MaxOps /\ Built(innerJoin(pp), "innerJoin", <<pp>>)
DoSqueezeJoin(pp) == ops < MaxOps /\ Built(squeezeJoin(pp), "squeezeJoin", <<pp>>)
DoResetJoin(pp) == ops < MaxOps /\ Built(resetJoin(pp, FALSE), "resetJoin", <<pp>>)
DoRestartJoin(pp) == ops < MaxOps /\ Built(restartJoin(pp), "restartJoin", <<pp>>)

\* the caller of the joins
NextJoin ==
  \/ DoFastcat(<<pat, pure(NumV(2))>>)
  \/ DoSlowcat(<<TwoSteps, pat>>)
  \/ \E t \in Offsets : DoEarly(t)
  \/ DoRev
  \/ DoFastGap(Int2F(2))
  \/ DoCompress(Fraction(1, 4), Fraction(3, 4))
  \/ \E f \in FuncPats : DoAppBoth(f)
  \/ DoJoin(PatOfPats)
  \/ DoOuterJoin(PatOfPats)
  \/ DoInnerJoin(PatOfPats)
  \/ DoSqueezeJoin(PatOfPats)
  \/ DoResetJoin(PatOfPats)
  \/ DoRestartJoin(PatOfPats)
  \/ \E span \in QuerySpans \cup PointSpans : QueryArc(span)

SpecJoin == Init /\ [][NextJoin]_vars

\* result.setSteps(steps) where result may be the shared silence or nothing:
\* the _steps of the constant after the call
silenceStepsAfter(result, steps) == IF result.op = "silence" THEN steps ELSE silenceSteps
nothingStepsAfter(result, steps) == IF result.op = "nothing" THEN steps ELSE nothingSteps

\* pat._fast(k): func(k, pat), then result.setSteps(pat._steps) on what func
\* returned, which for k = 0 is the constant silence itself
Do_fast(k) ==
  /\ ops < MaxOps
  /\ pat' = _fast(k, pat)
  /\ silenceSteps' = silenceStepsAfter(fastFn(k, pat), StepsOf(pat))
  /\ nothingSteps' = nothingStepsAfter(fastFn(k, pat), StepsOf(pat))
  /\ ops' = ops + 1
  /\ lastOp' = "_fast"
  /\ arms' = <<>>
  /\ qspan' = NoSpan
  /\ haps' = <<>>
  /\ queried' = FALSE
  /\ raised' = FALSE
  /\ UNCHANGED <<held, heldSpan, heldHaps>>
  /\ UNCHANGED <<context, attached, called, qcontrols>>

\* the caller keeps a join of a pattern of patterns: pat, then silence
Keep(joined) ==
  /\ held = silence
  /\ held' = joined
  /\ UNCHANGED <<pat, ops, lastOp, arms, qspan, haps, queried, silenceSteps, nothingSteps,
                 heldSpan, heldHaps, raised>>
  /\ UNCHANGED <<context, attached, called, qcontrols>>

KeepStepJoin == Keep(stepJoin(fastcat(<<pure(PatV(pat)), pure(PatV(silence))>>)))
KeepInnerJoin == Keep(innerJoin(fastcat(<<pure(PatV(pat)), pure(PatV(silence))>>)))

\* held.queryArc(span.begin, span.end), the first time
QueryHeld(span) ==
  /\ held # silence
  /\ heldSpan = NoSpan
  /\ heldSpan' = span
  /\ heldHaps' = queryArc(held, span.begin, span.end)
  /\ UNCHANGED <<pat, ops, lastOp, arms, qspan, haps, queried, silenceSteps, nothingSteps,
                 held, raised>>
  /\ UNCHANGED <<context, attached, called, qcontrols>>

\* spans given to queryArc by the caller that keeps a pattern
KeptSpans == {TimeSpan(F0, F1), TimeSpan(Fraction(1, 3), Fraction(5, 6))}

\* the caller that keeps a pattern while it builds and queries others
NextShared ==
  \/ \E q \in Arms : DoFastcat(<<pat, q>>)
  \/ DoStack(TwoSteps)
  \/ \E k \in {F0, Int2F(2)} : Do_fast(k)
  \/ KeepStepJoin
  \/ KeepInnerJoin
  \/ \E span \in KeptSpans : QueryHeld(span)
  \/ \E span \in KeptSpans : QueryArc(span)

SpecShared == Init /\ [][NextShared]_vars

\* offset and cycles given to ribbon: the offset a multiple of the loop length
\* (2 of 2, 1 of 1/2, -3 of 3/2, 0 of 1), and not (1 of 2, 1/2 of 1)
RibbonArgs ==
  {<<Int2F(2), Int2F(2)>>, <<F1, Fraction(1, 2)>>, <<Int2F(-3), Fraction(3, 2)>>, <<F0, F1>>,
   <<F1, Int2F(2)>>, <<Fraction(1, 2), F1>>}

DoRibbon(offset, cycles) ==
  ops < MaxOps /\ Built(ribbon(offset, cycles, pat), "ribbon", <<pat>>)

\* the caller that loops a piece of a pattern
NextRibbon ==
  \/ DoSlowcat(<<pat, TwoSteps, pat>>)
  \/ DoFastcat(<<pat, pure(NumV(2))>>)
  \/ DoSlow(Int2F(2))
  \/ \E oc \in RibbonArgs : DoRibbon(oc[1], oc[2])
  \/ \E span \in QuerySpans : QueryArc(span)

SpecRibbon == Init /\ [][NextRibbon]_vars

\* [time, pattern] lists given to stepcat, made of pat: the times taken from the
\* steps of the arms, and given with the arms; one, two and three arms
StepcatArgs ==
  {<<findsteps(pat)>>,
   <<TimePat(Fraction(3, 2), pat)>>,
   <<findsteps(pat), findsteps(TwoSteps)>>,
   <<TimePat(Int2F(3), pat), TimePat(F1, pure(NumV(2)))>>,
   <<findsteps(TwoSteps), TimePat(Fraction(1, 2), pat), findsteps(pure(NumV(3)))>>}

\* arms holds the [time, pattern] list
DoStepcat(timepats) == ops < MaxOps /\ Built(stepcat(timepats), "stepcat", timepats)

\* the caller of the stepwise concatenation
NextStep ==
  \/ DoFastcat(<<pat, pure(NumV(2))>>)
  \/ DoSlowcat(<<TwoSteps, pat>>)
  \/ DoSlow(Int2F(2))
  \/ DoCompress(Fraction(1, 4), Fraction(3, 4))
  \/ \E timepats \in StepcatArgs : DoStepcat(timepats)
  \/ \E span \in QuerySpans : QueryArc(span)

SpecStep == Init /\ [][NextStep]_vars

\* n given to every and lastOf
EveryNs == {1, 2, 3}

\* arms holds pat and func(pat); func is rev or fast(2)
DoEvery(n, funcOfPat) ==
  ops < MaxOps /\ Built(every(n, funcOfPat, pat), "every", <<pat, funcOfPat>>)
DoLastOf(n, funcOfPat) ==
  ops < MaxOps /\ Built(lastOf(n, funcOfPat, pat), "lastOf", <<pat, funcOfPat>>)

\* the caller of every and lastOf
NextEvery ==
  \/ DoFastcat(<<pat, pure(NumV(2))>>)
  \/ DoSlowcat(<<TwoSteps, pat>>)
  \/ \E n \in EveryNs : \E funcOfPat \in {rev(pat), fast(Int2F(2), pat)} : DoEvery(n, funcOfPat)
  \/ \E n \in EveryNs : \E funcOfPat \in {rev(pat), fast(Int2F(2), pat)} : DoLastOf(n, funcOfPat)
  \/ \E span \in QuerySpans : QueryArc(span)

SpecEvery == Init /\ [][NextEvery]_vars

\* intervals given to compress: inside [0,1], touching its ends, b > e, b = e,
\* b < 0 and e > 1
CompressIntervals ==
  {<<Fraction(1, 4), Fraction(3, 4)>>, <<F0, Fraction(1, 2)>>, <<Fraction(1, 3), F1>>,
   <<Fraction(3, 4), Fraction(1, 4)>>, <<Fraction(1, 2), Fraction(1, 2)>>, <<F0, F0>>,
   <<Fraction(-1, 4), Fraction(1, 2)>>, <<Fraction(1, 2), Fraction(5, 4)>>}

\* the caller of compress
NextCompress ==
  \/ DoFastcat(<<pat, pure(NumV(2))>>)
  \/ DoSlowcat(<<TwoSteps, pat>>)
  \/ DoSlow(Int2F(2))
  \/ \E be \in CompressIntervals : DoCompress(be[1], be[2])
  \/ \E span \in QuerySpans : QueryArc(span)

SpecCompress == Init /\ [][NextCompress]_vars

\* amounts given to degradeBy, undegradeBy and sometimesBy
DegradeAmounts == {F0, Fraction(1, 2), F1}

\* arms holds the amount with the pattern the method was called on
DoDegradeBy(x) ==
  ops < MaxOps /\ Built(degradeBy(x, pat), "degradeBy", <<TimePat(x, pat)>>)
DoUndegradeBy(x) ==
  ops < MaxOps /\ Built(undegradeBy(x, pat), "undegradeBy", <<TimePat(x, pat)>>)

\* func is x => x.add(1)
DoSometimesBy(x) ==
  /\ ops < MaxOps
  /\ Built(sometimesBy(x, pat, withValue(_undegradeBy(FracSub(F1, x), pat), FnV("add", 1))),
           "sometimesBy", <<TimePat(x, pat)>>)

\* the caller of the degradation family
NextDegrade ==
  \/ DoFastcat(<<pat, pure(NumV(2))>>)
  \/ DoSlowcat(<<TwoSteps, pat>>)
  \/ DoEarly(Fraction(1, 2))
  \/ \E x \in DegradeAmounts : DoDegradeBy(x)
  \/ \E x \in DegradeAmounts : DoUndegradeBy(x)
  \/ \E x \in DegradeAmounts : DoSometimesBy(x)
  \/ \E span \in QuerySpans : QueryArc(span)

SpecDegrade == Init /\ [][NextDegrade]_vars

\* pat.fmap(func); arms holds the pattern fmap was called on
DoFmap(func) == ops < MaxOps /\ Built(withValue(pat, func), "fmap", <<pat>>)

\* a later pat.queryArc(span.begin, span.end) on the pattern queried before
QueryAgain(span) ==
  /\ queried
  /\ held # pat
  /\ held' = pat
  /\ heldSpan' = span
  /\ heldHaps' = queryArc(pat, span.begin, span.end)
  /\ raised' = FALSE
  /\ UNCHANGED <<pat, ops, lastOp, arms, qspan, haps, queried, silenceSteps, nothingSteps>>
  /\ UNCHANGED <<context, attached, called, qcontrols>>

\* functions given to fmap: one that throws on the value 2, one that never throws
FmapFuncs == {FnV("throwOn", 2), FnV("add", 1)}

\* spans given to the later queryArc: two cycles, and a span over two cycles
LaterSpans ==
  {TimeSpan(F0, F1), TimeSpan(F1, Int2F(2)), TimeSpan(Fraction(-1, 2), Fraction(1, 2))}

\* the caller whose functions throw
NextThrow ==
  \/ DoFastcat(<<pat, pure(NumV(2))>>)
  \/ DoSlowcat(<<TwoSteps, pat>>)
  \/ \E func \in FmapFuncs : DoFmap(func)
  \/ DoStack(withValue(slowcat(<<pure(NumV(3)), pure(NumV(2))>>), FnV("throwOn", 2)))
  \/ \E span \in QuerySpans : QueryArc(span)
  \/ \E span \in LaterSpans : QueryAgain(span)

SpecThrow == Init /\ [][NextThrow]_vars

\* the methods called and the lists of arguments they are called with
MethodNames == {"rev", "fast", "ribbon"}
CallArgs == {<<>>, <<2>>, <<2, 3>>, <<1, 2, 3>>}

\* lastOp after a call of the method that threw
RaisedName(name) ==
  CASE name = "rev" -> "rev raised"
    [] name = "fast" -> "fast raised"
    [] name = "ribbon" -> "ribbon raised"

\* pat[name](...args); arms holds the arguments, each with the pattern called on
DoCall(name, args) ==
  /\ ops < MaxOps
  /\ IF methodThrows(Arity(name), Len(args))
     THEN Raised(RaisedName(name), [i \in 1..Len(args) |-> TimePat(Int2F(args[i]), pat)])
     ELSE Built(methodResult(name, args, pat), name,
                [i \in 1..Len(args) |-> TimePat(Int2F(args[i]), pat)])

\* the caller of registered methods
NextArity ==
  \/ DoFastcat(<<pat, pure(NumV(2))>>)
  \/ DoSlowcat(<<TwoSteps, pat>>)
  \/ \E name \in MethodNames : \E args \in CallArgs : DoCall(name, args)
  \/ \E span \in QuerySpans : QueryArc(span)

SpecArity == Init /\ [][NextArity]_vars

\* numbers of steps given to take and drop
StepCounts == {-4, -3, -2, -1, 0, 1, 2, 3, 4}
\* a sequence of three steps, pat the first
ThreeSteps == <<pat, pure(NumV(2)), pure(NumV(3))>>

\* pat.take(i) and pat.drop(i); arms holds i with the pattern called on
DoTake(i) == ops < MaxOps /\ Built(take(Int2F(i), pat), "take", <<TimePat(Int2F(i), pat)>>)
DoDrop(i) == ops < MaxOps /\ Built(drop(Int2F(i), pat), "drop", <<TimePat(Int2F(i), pat)>>)

\* numbers of steps given to pace, factors given to expand and contract and
\* amounts given to shrink and grow
PaceTargets == {Int2F(2), Int2F(3)}
ExpandFactors == {Int2F(2)}
ShrinkAmounts == {Int2F(1), Int2F(-1)}

DoPace(t) == ops < MaxOps /\ Built(pace(t, pat), "pace", <<TimePat(t, pat)>>)
DoExpand(k) == ops < MaxOps /\ Built(expand(k, pat), "expand", <<TimePat(k, pat)>>)
DoContract(k) == ops < MaxOps /\ Built(contract(k, pat), "contract", <<TimePat(k, pat)>>)

DoShrink(a) ==
  /\ ops < MaxOps
  /\ IF shrinkRaises(pat) THEN Raised("shrink raised", <<TimePat(a, pat)>>)
     ELSE Built(shrink(a, pat), "shrink", <<TimePat(a, pat)>>)

DoGrow(a) ==
  /\ ops < MaxOps
  /\ IF shrinkRaises(pat) THEN Raised("grow raised", <<TimePat(a, pat)>>)
     ELSE Built(grow(a, pat), "grow", <<TimePat(a, pat)>>)

\* the caller of the stepwise functions; fastGap builds a pattern without steps
NextStepwise ==
  \/ DoFastcat(ThreeSteps)
  \/ DoFastGap(Int2F(2))
  \/ \E i \in StepCounts : DoTake(i)
  \/ \E i \in StepCounts : DoDrop(i)
  \/ \E t \in PaceTargets : DoPace(t)
  \/ \E k \in ExpandFactors : DoExpand(k)
  \/ \E k \in ExpandFactors : DoContract(k)
  \/ \E a \in ShrinkAmounts : DoShrink(a)
  \/ \E a \in ShrinkAmounts : DoGrow(a)
  \/ \E span \in QuerySpans : QueryArc(span)

\* callbacks and dominant flags given to onTrigger, and arguments the context's
\* onTrigger is called with
Callbacks == {"c1", "c2"}
DominantFlags == {"undefined", "true", "false"}
TriggerArgs == {1, 2}

\* pat.onTrigger(onTrigger, dominant): withHap on the context of every event
DoOnTrigger(onTrigger, dominant) ==
  /\ Len(attached) < MaxAttached
  /\ pat' = withContext(pat)
  /\ context' = onTriggerContext(context, onTrigger, dominant)
  /\ attached' = Append(attached, [cb |-> onTrigger, dominant |-> dominant])
  /\ called' = <<>>
  /\ lastOp' = "onTrigger"
  /\ arms' = <<>>
  /\ qspan' = NoSpan
  /\ haps' = <<>>
  /\ queried' = FALSE
  /\ raised' = FALSE
  /\ UNCHANGED <<ops, silenceSteps, nothingSteps, held, heldSpan, heldHaps, qcontrols>>

\* hap.context.onTrigger(args), as the scheduler calls it for an event of pat
Trigger(args) ==
  /\ context.onTrigger # <<>>
  /\ called' = callOnTrigger(context.onTrigger, args)
  /\ UNCHANGED <<pat, ops, lastOp, arms, qspan, haps, queried, silenceSteps, nothingSteps,
                 held, heldSpan, heldHaps, raised, context, attached, qcontrols>>

\* the caller that attaches triggers
NextTrigger ==
  \/ \E cb \in Callbacks : \E dominant \in DominantFlags : DoOnTrigger(cb, dominant)
  \/ \E args \in TriggerArgs : Trigger(args)

SpecTrigger == Init /\ [][NextTrigger]_vars

\* the ways of combining structure, and the composers called with the patterns
\* given: add with a pattern of one step, sub with patterns of two steps that
\* cross the cycle boundary and of three steps
Hows == {"in", "out", "mix"}
ComposerCalls ==
  {<<"add_", pure(NumV(2))>>, <<"sub_", early(Fraction(1, 4), TwoSteps)>>,
   <<"sub_", fastcat(<<pure(NumV(4)), pure(NumV(5)), pure(NumV(6))>>)>>}

\* pat[what][how](other); arms holds pat and other, lastOp is how and held the
\* function of what
DoComposer(what, how, other) ==
  /\ ops < MaxOps
  /\ pat' = composer(what, how, pat, other)
  /\ ops' = ops + 1
  /\ lastOp' = how
  /\ arms' = <<pat, other>>
  /\ held' = pure(CurriedV(what))
  /\ qspan' = NoSpan
  /\ haps' = <<>>
  /\ queried' = FALSE
  /\ raised' = FALSE
  /\ UNCHANGED <<silenceSteps, nothingSteps, heldSpan, heldHaps, context, attached, called,
                 qcontrols>>

\* the caller of the composers
NextComposer ==
  \/ DoFastcat(<<pat, pure(NumV(2))>>)
  \/ DoEarly(Fraction(1, 3))
  \/ \E call \in ComposerCalls : \E how \in Hows : DoComposer(call[1], how, call[2])
  \/ \E span \in QuerySpans : QueryArc(span)

SpecComposer == Init /\ [][NextComposer]_vars

\* functions given to fmap to make sounds, numbers of slices, index patterns and
\* controls given to queryArc
SoundFuncs ==
  {SoundFnV("withSpeed", 2), SoundFnV("withSpeed", 0), SoundFnV("withUnit", 0),
   SoundFnV("withSpeedUnit", 3)}
SliceCounts == {2, 4}
IndexPats == {fastcat(<<pure(NumV(0)), pure(NumV(1))>>),
              fastcat(<<pure(NumV(1)), pure(NumV(3)), pure(NumV(0))>>)}
ControlsGiven == {NoControls, [cps |-> Int2F(2)]}

\* pat.fmap(func) on a pattern of numbers
DoSound(func) ==
  /\ ops < MaxOps
  /\ \A hap \in Range(Query(pat, State(TimeSpan(F0, F1), NoControls))) : hap.value.kind = "num"
  /\ Built(withValue(pat, func), "fmap", <<pat>>)

\* pat.splice(n, ipat); arms holds pat, ipat and pure(n)
DoSplice(n, ipat) ==
  ops < MaxOps /\ Built(splice(pure(NumV(n)), ipat, pat), "splice", <<pat, ipat, pure(NumV(n))>>)

\* pat.queryArc(span.begin, span.end, controls)
QueryArcControls(span, controls) ==
  /\ ~queried
  /\ qspan' = span
  /\ qcontrols' = controls
  /\ haps' = queryArcControls(pat, span.begin, span.end, controls)
  /\ queried' = TRUE
  /\ raised' = FALSE
  /\ UNCHANGED <<pat, ops, lastOp, arms, silenceSteps, nothingSteps, held, heldSpan, heldHaps,
                 context, attached, called>>

\* the caller of splice
NextSplice ==
  \/ \E func \in SoundFuncs : DoSound(func)
  \/ \E n \in SliceCounts : \E ipat \in IndexPats : DoSplice(n, ipat)
  \/ \E span \in QuerySpans : \E controls \in ControlsGiven : QueryArcControls(span, controls)

SpecSplice == Init /\ [][NextSplice]_vars

\* a call that runs result.setSteps(pat._steps) on funcResult, the pattern the
\* registered function returned, and gives the caller result
BuiltSettingSteps(result, funcResult, op) ==
  /\ ops < MaxOps
  /\ pat' = result
  /\ silenceSteps' = silenceStepsAfter(funcResult, StepsOf(pat))
  /\ nothingSteps' = nothingStepsAfter(funcResult, StepsOf(pat))
  /\ ops' = ops + 1
  /\ lastOp' = op
  /\ arms' = <<pat>>
  /\ qspan' = NoSpan
  /\ haps' = <<>>
  /\ queried' = FALSE
  /\ raised' = FALSE
  /\ UNCHANGED <<held, heldSpan, heldHaps, context, attached, called, qcontrols>>

\* pat._linger(t), pat._bypass(on) and pat.cpm(c), whose pat._fast sets the steps
Do_linger(t) == BuiltSettingSteps(_linger(t, pat), lingerFn(t, pat), "_linger")
Do_bypass(on) == BuiltSettingSteps(_bypass(on, pat), bypassFn(on, pat), "_bypass")
DoCpm(c) ==
  BuiltSettingSteps(cpm(c, pat), fastFn(FracDiv(FracDiv(c, Int2F(60)), F1), pat), "cpm")

\* the caller of the functions that return the constant silence
NextConstants ==
  \/ DoFastcat(<<pat, pure(NumV(2))>>)
  \/ DoFastcat(ThreeSteps)
  \/ \E k \in {F0, Int2F(2)} : Do_fast(k)
  \/ \E t \in {F0, Fraction(1, 2)} : Do_linger(t)
  \/ \E on \in {0, 1} : Do_bypass(on)
  \/ \E c \in {F0, Int2F(120)} : DoCpm(c)
  \/ \E span \in QuerySpans : QueryArc(span)

SpecConstants == Init /\ [][NextConstants]_vars

SpecStepwise == Init /\ [][NextStepwise]_vars

\* lists of patterns given to polymeter
PolymeterArgs ==
  {<<pat>>, <<pat, TwoSteps>>, <<TwoSteps, pat, fastcat(<<pure(NumV(4)), TwoSteps, pure(NumV(5))>>)>>}

\* polymeter(...args); arms holds the arguments
DoPolymeter(args) == ops < MaxOps /\ Built(polymeter(args), "polymeter", args)

\* the caller of polymeter and pace; fastGap builds a pattern without steps and
\* take(0) one of 0 steps
NextPolymeter ==
  \/ DoFastcat(<<pat, pure(NumV(2))>>)
  \/ DoFastcat(ThreeSteps)
  \/ DoFastGap(Int2F(2))
  \/ DoTake(0)
  \/ \E t \in PaceTargets : DoPace(t)
  \/ \E args \in PolymeterArgs : DoPolymeter(args)
  \/ \E span \in QuerySpans : QueryArc(span)

SpecPolymeter == Init /\ [][NextPolymeter]_vars

\* the caller that queries a span as a whole and in two pieces: the discrete
\* patterns of pure, fastcat, slowcat, stack, fast, slow, early, late, rev and
\* degradeBy
NextSplit ==
  \/ DoFastcat(<<pat, pure(NumV(2))>>)
  \/ DoSlowcat(<<TwoSteps, pat>>)
  \/ DoStack(TwoSteps)
  \/ DoFast(Int2F(2))
  \/ DoSlow(Int2F(2))
  \/ DoEarly(Fraction(1, 3))
  \/ DoLate(Fraction(1, 3))
  \/ DoRev
  \/ DoDegradeBy(Fraction(1, 2))
  \/ \E span \in QuerySpans : QueryArc(span)

SpecSplit == Init /\ [][NextSplit]_vars

\* the caller of the pick family: a pattern of integer indices, then one of the
\* functions with a lookup array
PickNames == {"pick", "pickOut", "pickRestart", "pickReset", "inhabit"}
PickmodNames == {"pickmod", "pickmodOut", "pickmodRestart", "pickmodReset", "inhabitmod"}
\* the integers the index pattern is made of, besides the 1 of the first pattern
Indices == {-4, -3, -1, 0, 2, 4}
\* the lookup arrays, of length 1, 2 and 3
Lookups ==
  {<<TwoSteps>>,
   <<pure(NumV(10)), pure(NumV(20))>>,
   <<pure(NumV(10)), fastcat(<<pure(NumV(20)), pure(NumV(21))>>), pure(NumV(30))>>}

IsIndexPattern == lastOp \in {"pure", "index"}

\* sequence(pat, i)
DoIndex(i) ==
  /\ IsIndexPattern
  /\ ops < MaxOps
  /\ Built(fastcat(<<pat, pure(NumV(i))>>), "index", <<>>)

\* arms holds the index pattern, then the lookup array
DoPick(name, lookup) ==
  /\ IsIndexPattern
  /\ ops < MaxOps
  /\ Built(pickFamily(name, lookup, pat), name, <<pat>> \o lookup)

DoSqueeze(xs) ==
  /\ IsIndexPattern
  /\ ops < MaxOps
  /\ Built(squeeze(pat, xs), "squeeze", <<pat>> \o xs)

NextPick ==
  \/ \E i \in Indices : DoIndex(i)
  \/ \E name \in PickNames \cup PickmodNames : \E lookup \in Lookups : DoPick(name, lookup)
  \/ \E xs \in Lookups : DoSqueeze(xs)
  \/ \E span \in QuerySpans : QueryArc(span)

SpecPick == Init /\ [][NextPick]_vars

----------------------------------------------------------------------------
(* properties *)

\* the State of the last queryArc call
QState == State(qspan, NoControls)

\* the span lies within one cycle
InOneCycle(span) == FracLte(span.end, nextSam(span.begin))

\* the same events, in any order
SameEvents(a, b) ==
  /\ Len(a) = Len(b)
  /\ \A x \in Range(a) :
       Cardinality({i \in 1..Len(a) : a[i] = x}) = Cardinality({i \in 1..Len(b) : b[i] = x})

\* C1: for a pattern built from pure, stack, slowcat, fastcat, fast, slow, early,
\* late, rev, compress, appLeft, appRight and appBoth, and a query span [b,e) with
\* b < e, the part of every returned event is contained in [b,e).
C1_PartInsideQuerySpan ==
  (queried /\ FracLt(qspan.begin, qspan.end)) =>
    \A i \in 1..Len(haps) :
      /\ FracLte(qspan.begin, haps[i].part.begin)
      /\ FracLte(haps[i].part.begin, haps[i].part.end)
      /\ FracLte(haps[i].part.end, qspan.end)

\* an applicative was queried over a part of a cycle and returned a fragment
C1_Witness ==
  /\ queried
  /\ lastOp = "appLeft"
  /\ qspan = TimeSpan(Fraction(4, 3), Fraction(11, 6))
  /\ \E i \in 1..Len(haps) : haps[i].part # haps[i].whole

\* the events shifted in time by t
Shifted(hs, t) ==
  SeqMap(LAMBDA hap : hapWithSpan(hap, LAMBDA sp : TimeSpan(FracAdd(sp.begin, t), FracAdd(sp.end, t))),
         hs)

LawFactors == {Int2F(2), Fraction(1, 3), Fraction(-1, 1), Fraction(-3, 2)}

\* the events of the arms, arm after arm
RECURSIVE ArmAfterArm(_, _)
ArmAfterArm(ps, state) ==
  IF ps = <<>> THEN <<>> ELSE Query(Head(ps), state) \o ArmAfterArm(Tail(ps), state)

\* C9: for every rational k, stack(ps).fast(k) and the stack of each arm's fast(k)
\* return the same events in the same order, the order of the arms, and have the
\* same steps, the lcm of the arms' steps.
C9_FastDistributesOverStack ==
  (queried /\ lastOp = "stack") =>
    \A k \in LawFactors \cup {F0} :
      LET faster == SeqMap(LAMBDA arm : fast(k, arm), arms)
          events == Query(fast(k, pat), QState)
      IN  /\ events = Query(stack(faster), QState)
          /\ events = ArmAfterArm(faster, QState)
          /\ StepsOf(fast(k, pat)) = StepsOf(stack(faster))
          /\ StepsOf(fast(k, pat)) = lcm(SeqMap(StepsOf, arms))

\* a stack was queried and each of its two arms returned events
C9_Witness ==
  /\ queried
  /\ lastOp = "stack"
  /\ Len(arms) = 2
  /\ \A i \in 1..2 : Query(fast(Int2F(2), arms[i]), QState) # <<>>
  /\ StepsOf(arms[1]) # StepsOf(arms[2])

\* C6: for every pattern p and every rational k other than 0, p.fast(k).slow(k)
\* returns for every query span the events of p (whole, part and value) and has
\* the steps of p.
C6_SlowUndoesFast ==
  queried =>
    \A k \in LawFactors :
      /\ Query(slow(k, fast(k, pat)), QState) = haps
      /\ StepsOf(slow(k, fast(k, pat))) = StepsOf(pat)

\* a pattern of events of several lengths, one of them cut by the query span
C6_Witness ==
  /\ queried
  /\ Len(haps) >= 2
  /\ \E i \in 1..Len(haps) : haps[i].part # haps[i].whole
  /\ \E i, j \in 1..Len(haps) :
       FracSub(haps[i].whole.end, haps[i].whole.begin) #
         FracSub(haps[j].whole.end, haps[j].whole.begin)

\* offsets of the law about early and late
LawOffsets == {F0, Fraction(1, 3), Fraction(-1, 4), Fraction(5, 4)}

\* C7: for every pattern p and every rational t, positive, negative or zero,
\* p.early(t).late(t) returns for every query span the events of p and has the
\* steps of p.
C7_LateUndoesEarly ==
  queried =>
    \A t \in LawOffsets :
      /\ Query(late(t, early(t, pat)), QState) = haps
      /\ StepsOf(late(t, early(t, pat))) = StepsOf(pat)

\* a pattern that differs from cycle to cycle was queried across a cycle boundary
C7_Witness ==
  /\ queried
  /\ lastOp = "slowcat"
  /\ ~InOneCycle(qspan)
  /\ \E i, j \in 1..Len(haps) : haps[i].value # haps[j].value

\* C8: for every discrete pattern p, events whose whole extends beyond the queried
\* cycle included, and every query span within one cycle, p.rev().rev() returns
\* the wholes, parts and values of p.
C8_RevIsAnInvolution ==
  (queried /\ InOneCycle(qspan)) => Query(rev(rev(pat)), QState) = haps

\* an event whose whole extends beyond the queried cycle was returned for a part
\* of a cycle other than cycle 0
C8_Witness ==
  /\ queried
  /\ InOneCycle(qspan)
  /\ sam(qspan.begin) # F0
  /\ cyclePos(qspan.begin) # F0
  /\ \E i \in 1..Len(haps) :
       FracGt(FracSub(haps[i].whole.end, haps[i].whole.begin), F1)

\* the whole lies within one cycle
WholeInOneCycle(hap) == InOneCycle(hap.whole)

\* pure(identity).appBoth(p), queried as pat was
AppBothIdentity == Query(appBoth(pure(FnV("id", 0)), pat), QState)

\* C10 as stated: for every pattern p, one whose events have a whole of more than
\* one cycle included, pure(identity).appBoth(p) returns events with the whole,
\* part and value of the events of p.
C10_AppBothIdentityReturnsAll == queried => SameEvents(AppBothIdentity, haps)

\* C10: pure(identity).appBoth(p) returns the events of p (whole, part and value;
\* in the order of p when the query span lies within one cycle) when the whole of
\* each lies within one cycle; in general each event it returns is an event of p
\* with whole and part cut to one cycle.
C10_AppBothIdentityCutsToCycle ==
  queried =>
    /\ (\A i \in 1..Len(haps) : WholeInOneCycle(haps[i])) =>
         /\ SameEvents(AppBothIdentity, haps)
         /\ InOneCycle(qspan) => AppBothIdentity = haps
    /\ \A i \in 1..Len(AppBothIdentity) :
         LET r == AppBothIdentity[i]
             cycle == wholeCycle(r.part.begin)
         IN  \E j \in 1..Len(haps) :
               /\ r.value = haps[j].value
               /\ r.whole = intersection(haps[j].whole, cycle)
               /\ r.part = intersection(haps[j].part, cycle)

\* an event whose whole is longer than a cycle was returned, and
\* pure(identity).appBoth(p) returned it with its whole cut to the cycle
C10_Witness ==
  /\ queried
  /\ \E j \in 1..Len(haps) : ~WholeInOneCycle(haps[j])
  /\ \E i \in 1..Len(AppBothIdentity) :
       /\ WholeInOneCycle(AppBothIdentity[i])
       /\ \A j \in 1..Len(haps) : AppBothIdentity[i].whole # haps[j].whole

\* the offset is a whole number of loop lengths
WholeLoops(offset, cycles) == FracDiv(offset, cycles).d = 1

\* C11 as stated: for every pattern p, offset o and loop length c > 0, offsets
\* that are not a multiple of c included, p.ribbon(o,c).ribbon(o,c) returns the
\* events of p.ribbon(o,c).
C11_RibbonTwiceIsRibbon ==
  (queried /\ lastOp = "ribbon") =>
    \A oc \in RibbonArgs :
      pat = ribbon(oc[1], oc[2], arms[1]) => Query(ribbon(oc[1], oc[2], pat), QState) = haps

\* C11: for every pattern p, loop length c > 0 and offset o that is a whole
\* number of loop lengths, p.ribbon(o,c).ribbon(o,c) returns the events of
\* p.ribbon(o,c).
C11_RibbonTwiceIsRibbonOfWholeLoops ==
  (queried /\ lastOp = "ribbon") =>
    \A oc \in RibbonArgs :
      (pat = ribbon(oc[1], oc[2], arms[1]) /\ WholeLoops(oc[1], oc[2])) =>
        Query(ribbon(oc[1], oc[2], pat), QState) = haps

\* a ribbon of two cycles from cycle 2 of a pattern that differs from cycle to
\* cycle was queried and returned events of different values
C11_Witness ==
  /\ queried
  /\ lastOp = "ribbon"
  /\ pat = ribbon(Int2F(2), Int2F(2), arms[1])
  /\ ~InOneCycle(qspan)
  /\ \E i, j \in 1..Len(haps) : haps[i].value # haps[j].value

\* the events of p in the cycle of span, that cycle mapped linearly onto its
\* slice [cycle + b, cycle + e), for the part of span inside the slice
PlayedInside(p, b, e, span) ==
  LET cycle == sam(span.begin)
      slice == TimeSpan(FracAdd(cycle, b), FracAdd(cycle, e))
      inside == intersection(span, slice)
      back(t) == FracAdd(cycle, FracDiv(FracSub(FracSub(t, cycle), b), FracSub(e, b)))
      forth(t) == FracAdd(FracAdd(cycle, b), FracMul(FracSub(t, cycle), FracSub(e, b)))
  IN  IF ~HasSpan(inside) \/ FracEq(inside.begin, inside.end) THEN <<>>
      ELSE SeqMap(LAMBDA hap : hapWithSpan(hap, LAMBDA sp : TimeSpan(forth(sp.begin), forth(sp.end))),
                  Query(p, State(TimeSpan(back(inside.begin), back(inside.end)), NoControls)))

\* the events of the arms from the i-th on, each played inside its slice
RECURSIVE SliceAfterSlice(_, _, _, _)
SliceAfterSlice(timepats, begin, total, span) ==
  IF timepats = <<>> THEN <<>>
  ELSE LET end == FracAdd(begin, Head(timepats).time)
       IN  PlayedInside(Head(timepats).pat, FracDiv(begin, total), FracDiv(end, total), span)
           \o SliceAfterSlice(Tail(timepats), end, total, span)

\* C12: for arms with positive weights t1..tn, given with the arms or taken from
\* their steps, and T their sum, stepcat has T steps and one cycle of arm i
\* occupies the slice [(t1+..+t(i-1))/T, (t1+..+ti)/T) of every cycle, with no
\* event of arm i outside the slice.
C12_StepcatSlices ==
  (queried /\ lastOp = "stepcat") =>
    LET T == FracSum(SeqMap(LAMBDA tp : tp.time, arms))
    IN  /\ StepsOf(pat) = T
        /\ InOneCycle(qspan) => haps = SliceAfterSlice(arms, F0, T, qspan)

\* C12 without the steps of a stepcat of one arm
C12_StepcatSlicesOfSeveral ==
  (queried /\ lastOp = "stepcat") =>
    LET T == FracSum(SeqMap(LAMBDA tp : tp.time, arms))
    IN  /\ (Len(arms) >= 2 \/ IsDef(StepsOf(arms[1].pat))) => StepsOf(pat) = T
        /\ InOneCycle(qspan) => haps = SliceAfterSlice(arms, F0, T, qspan)

\* the events of the discrete outer pattern kept in arms, queried as pat was
OuterHaps == Query(discreteOnly(arms[1]), QState)

\* the events of the inner pattern of outerHap in the cycle fromCycle, that cycle
\* mapped linearly onto the whole of outerHap, for the part of outerHap, wholes
\* cut to the outer whole and parts to the outer part
SqueezedInto(outerHap, fromCycle) ==
  LET w == outerHap.whole
      len == FracSub(w.end, w.begin)
      back(t) == FracAdd(fromCycle, FracDiv(FracSub(t, w.begin), len))
      forth(t) == FracAdd(w.begin, FracMul(FracSub(t, fromCycle), len))
      inner == Query(outerHap.value.pat[1],
                     State(TimeSpan(back(outerHap.part.begin), back(outerHap.part.end)),
                           NoControls))
      onto(hap) == hapWithSpan(hap, LAMBDA sp : TimeSpan(forth(sp.begin), forth(sp.end)))
      cut(hap) == Hap(intersection(hap.whole, outerHap.whole),
                      intersection(hap.part, outerHap.part), hap.value)
  IN  SelectSeq(SeqMap(LAMBDA hap : cut(onto(hap)), inner),
                LAMBDA hap : HasSpan(hap.whole) /\ HasSpan(hap.part))

InnerHaps(outerHap) == Query(outerHap.value.pat[1], setSpan(QState, outerHap.part))
ResetInnerHaps(outerHap, restarted) ==
  Query(late(IF restarted THEN outerHap.whole.begin ELSE cyclePos(outerHap.whole.begin),
             outerHap.value.pat[1]),
        QState)

\* each returned event is an inner event of an outer event, with the inner whole
EachHasInnerWhole ==
  \A i \in 1..Len(haps) :
    \E outerHap \in Range(OuterHaps) : \E innerHap \in Range(InnerHaps(outerHap)) :
      haps[i] = innerHap

\* each returned event is an inner event of an outer event, with the outer whole
EachHasOuterWhole ==
  \A i \in 1..Len(haps) :
    \E outerHap \in Range(OuterHaps) : \E innerHap \in Range(InnerHaps(outerHap)) :
      haps[i] = Hap(outerHap.whole, innerHap.part, innerHap.value)

\* C14 as stated: every event returned by innerJoin has the whole of the inner
\* event it came from, and every event returned by outerJoin, resetJoin or
\* restartJoin has the whole of the outer event that selected it.
C14_JoinWholes ==
  (queried /\ FracLt(qspan.begin, qspan.end)) =>
    /\ lastOp = "innerJoin" => EachHasInnerWhole
    /\ lastOp = "outerJoin" => EachHasOuterWhole
    /\ lastOp \in {"resetJoin", "restartJoin"} =>
         \A i \in 1..Len(haps) :
           \E outerHap \in Range(OuterHaps) :
             \E innerHap \in Range(ResetInnerHaps(outerHap, lastOp = "restartJoin")) :
               haps[i] = Hap(outerHap.whole, intersection(innerHap.part, outerHap.part),
                             innerHap.value)

\* C14: every event returned by innerJoin has the whole of the inner event it
\* came from, every event returned by outerJoin has the whole of the outer event
\* that selected it, and every event returned by resetJoin or restartJoin has the
\* intersection of the whole of the inner event and the whole of the outer event.
C14_JoinWholesResetCut ==
  (queried /\ FracLt(qspan.begin, qspan.end)) =>
    /\ lastOp = "innerJoin" => EachHasInnerWhole
    /\ lastOp = "outerJoin" => EachHasOuterWhole
    /\ lastOp \in {"resetJoin", "restartJoin"} =>
         \A i \in 1..Len(haps) :
           \E outerHap \in Range(OuterHaps) :
             \E innerHap \in Range(ResetInnerHaps(outerHap, lastOp = "restartJoin")) :
               haps[i] = Hap(intersection(innerHap.whole, outerHap.whole),
                             intersection(innerHap.part, outerHap.part), innerHap.value)

\* a resetJoin returned an event whose whole is shorter than the whole of every
\* outer event
C14_Witness ==
  /\ queried
  /\ lastOp = "resetJoin"
  /\ FracLt(qspan.begin, qspan.end)
  /\ \E i \in 1..Len(haps) :
       \A outerHap \in Range(OuterHaps) :
         FracLt(FracSub(haps[i].whole.end, haps[i].whole.begin),
                FracSub(outerHap.whole.end, outerHap.whole.begin))

\* C15: for n >= 1 and every cycle c, negative cycles included, p.every(n,f)
\* returns in cycle c the events of f(p) when c mod n = 0 and the events of p
\* otherwise, and p.lastOf(n,f) does the same with c mod n = n-1; no cycle in
\* which p has events comes back empty.
C15_EveryNthCycle ==
  (queried /\ lastOp \in {"every", "lastOf"} /\ InOneCycle(qspan)) =>
    \A n \in EveryNs :
      LET c == FloorInt(qspan.begin)
          nth == IF lastOp = "every" THEN 0 ELSE n - 1
          made == IF lastOp = "every" THEN every(n, arms[2], arms[1])
                  ELSE lastOf(n, arms[2], arms[1])
      IN  pat = made =>
            /\ haps = IF c % n = nth THEN Query(arms[2], QState) ELSE Query(arms[1], QState)
            /\ Query(arms[1], QState) # <<>> => haps # <<>>

\* C15 in the cycles from 0 on
C15_EveryNthCycleFromZero ==
  (queried /\ lastOp \in {"every", "lastOf"} /\ InOneCycle(qspan)
     /\ FracGte(qspan.begin, F0)) =>
    \A n \in EveryNs :
      LET c == FloorInt(qspan.begin)
          nth == IF lastOp = "every" THEN 0 ELSE n - 1
          made == IF lastOp = "every" THEN every(n, arms[2], arms[1])
                  ELSE lastOf(n, arms[2], arms[1])
      IN  pat = made =>
            haps = IF c % n = nth THEN Query(arms[2], QState) ELSE Query(arms[1], QState)


\* 0 <= b < e <= 1
ValidInterval(b, e) == FracLte(F0, b) /\ FracLt(b, e) /\ FracLte(e, F1)

\* C16: a call of compress(b, e) never raises; when not 0 <= b < e <= 1, b = e
\* included, the result has no events; otherwise the events of every cycle c are
\* those of cycle c of p played inside [c+b, c+e), with nothing outside it.
C16_CompressSilentOrInside ==
  /\ lastOp # "compress raised"
  /\ (queried /\ lastOp = "compress") =>
       IF ValidInterval(arms[1].time, arms[2].time)
       THEN InOneCycle(qspan) =>
              haps = PlayedInside(arms[1].pat, arms[1].time, arms[2].time, qspan)
       ELSE haps = <<>>

\* C16 for the calls of compress that return
C16_CompressSilentOrInsideWhenReturned ==
  (queried /\ lastOp = "compress") =>
    IF ValidInterval(arms[1].time, arms[2].time)
    THEN InOneCycle(qspan) =>
           haps = PlayedInside(arms[1].pat, arms[1].time, arms[2].time, qspan)
    ELSE haps = <<>>


\* the draw of rand for an event: rand is queried over the whole of the event and
\* a signal takes its value at the begin of the query
Draw(hap) == timeToRand(wholeOrPart(hap).begin)

\* the draw of the event equals the amount x
DrawIs(hap, x) == Draw(hap) = x.n * (TwoTo29 \div x.d)

\* C17: p.degradeBy(0) returns every event of p and p.degradeBy(1) none, in every
\* cycle, the event that starts at time 0 (draw timeToRand(0)) included.
C17_DegradeByZeroKeepsAll ==
  (queried /\ lastOp = "degradeBy") =>
    /\ arms[1].time = F0 => haps = Query(arms[1].pat, QState)
    /\ arms[1].time = F1 => haps = <<>>

\* C17 but for the events whose draw is 0
C17_DegradeByZeroKeepsPositiveDraws ==
  (queried /\ lastOp = "degradeBy") =>
    /\ arms[1].time = F0 =>
         haps = SelectSeq(Query(arms[1].pat, QState), LAMBDA hap : ~DrawIs(hap, F0))
    /\ arms[1].time = F1 => haps = <<>>

\* the number of events of haps_ with the whole and part of hap
TimesIn(hap, haps_) ==
  Cardinality({i \in 1..Len(haps_) : haps_[i].whole = hap.whole /\ haps_[i].part = hap.part})

\* C18: for x in [0,1], every event of p is kept by exactly one of p.degradeBy(x)
\* and p.undegradeBy(1 - x), whatever its draw (a draw equal to x included), and
\* p.sometimesBy(x, f) has every event of p exactly once (queried within a cycle:
\* over a cycle boundary the join of sometimesBy returns an event in two pieces).
C18_KeptByExactlyOne ==
  /\ (queried /\ lastOp = "degradeBy") =>
       \A hap \in Range(Query(arms[1].pat, QState)) :
         TimesIn(hap, haps)
           + TimesIn(hap, Query(undegradeBy(FracSub(F1, arms[1].time), arms[1].pat), QState)) = 1
  /\ (queried /\ lastOp = "sometimesBy" /\ InOneCycle(qspan)) =>
       /\ Len(haps) = Len(Query(arms[1].pat, QState))
       /\ \A hap \in Range(Query(arms[1].pat, QState)) : TimesIn(hap, haps) = 1

\* C18 with the events whose draw equals x kept by neither
C18_KeptByExactlyOneButTies ==
  /\ (queried /\ lastOp = "degradeBy") =>
       \A hap \in Range(Query(arms[1].pat, QState)) :
         TimesIn(hap, haps)
           + TimesIn(hap, Query(undegradeBy(FracSub(F1, arms[1].time), arms[1].pat), QState))
           = IF DrawIs(hap, arms[1].time) THEN 0 ELSE 1
  /\ (queried /\ lastOp = "sometimesBy" /\ InOneCycle(qspan)) =>
       \A hap \in Range(Query(arms[1].pat, QState)) :
         TimesIn(hap, haps) = IF DrawIs(hap, arms[1].time) THEN 0 ELSE 1


\* the function func throws on an event of p in span
ThrowsIn(func, p, span) ==
  \E hap \in Range(Query(p, State(span, NoControls))) : ApplyThrows(func, hap.value)

\* what p.fmap(func).queryArc(span) is to return: nothing when func throws on an
\* event of p in span, else the events of p with func applied to the values
CaughtOrMapped(func, p, span) ==
  IF ThrowsIn(func, p, span) THEN <<>>
  ELSE SeqMap(LAMBDA hap : Hap(hap.whole, hap.part, Apply(func, hap.value)),
              Query(p, State(span, NoControls)))

RightArity(name, nargs) ==
  Arity(name) = nargs + 1 \/ (Arity(name) = 2 /\ nargs >= 2)

\* the events of p.fast(a1 .. an) within a cycle: those of p.fast(ai) for the part
\* of the query inside the i-th of n equal slices of the cycle
RECURSIVE FastInSlices(_, _, _, _)
FastInSlices(given, i, n, span) ==
  IF i > n THEN <<>>
  ELSE LET cycle == sam(span.begin)
           slice == TimeSpan(FracAdd(cycle, Fraction(i - 1, n)), FracAdd(cycle, Fraction(i, n)))
           inside == intersection(span, slice)
       IN  (IF ~HasSpan(inside) \/ FracEq(inside.begin, inside.end) THEN <<>>
            ELSE Query(fastFn(given[i].time, given[i].pat), State(inside, NoControls)))
           \o FastInSlices(given, i + 1, n, span)

\* C21: a method created by register throws to its caller when called with the
\* wrong number of arguments, too few (none to a one-argument method included) or,
\* for a method of two or more arguments, too many; a one-argument method given
\* several arguments returns, and behaves as if given their sequence.
C21_WrongArityThrows ==
  \A name \in MethodNames :
    /\ lastOp = name => RightArity(name, Len(arms))
    /\ lastOp = RaisedName(name) => ~RightArity(name, Len(arms))
    /\ (lastOp = "fast" /\ Len(arms) >= 2 /\ queried /\ InOneCycle(qspan)) =>
         haps = FastInSlices(arms, 1, Len(arms), qspan)

\* C21 but for a one-argument method called without arguments, which returns
C21_WrongArityThrowsButNoneToOne ==
  \A name \in MethodNames :
    /\ lastOp = name =>
         RightArity(name, Len(arms)) \/ (Arity(name) = 2 /\ Len(arms) = 0)
    /\ lastOp = RaisedName(name) => ~RightArity(name, Len(arms))
    /\ (lastOp = "fast" /\ Len(arms) >= 2 /\ queried /\ InOneCycle(qspan)) =>
         haps = FastInSlices(arms, 1, Len(arms), qspan)
    /\ (lastOp = "fast" /\ Len(arms) = 0 /\ queried) => haps = <<>>

\* C20: when an arm of stack(p, q) throws while queried, queryArc over that span
\* still returns all the events of the arm that did not throw.
C20_StackKeepsOtherArm ==
  (queried /\ lastOp = "stack") =>
    \A i \in 1..2 :
      (~Throws(arms[i], QState) /\ Throws(arms[3 - i], QState)) =>
        \A hap \in Range(Query(arms[i], QState)) : hap \in Range(haps)

\* C20 as the code has it: no events at all when an arm throws
C20_StackThrowsAsAWhole ==
  (queried /\ lastOp = "stack") =>
    haps = IF Throws(arms[1], QState) \/ Throws(arms[2], QState) THEN <<>>
           ELSE Query(arms[1], QState) \o Query(arms[2], QState)

\* the events of p in the slice [b, e) of one cycle, the slice mapped linearly
\* onto the cycle, for a span inside the cycle
ZoomedCycle(p, b, e, span) ==
  LET cycle == sam(span.begin)
      forth(t) == FracAdd(FracAdd(cycle, b), FracMul(FracSub(t, cycle), FracSub(e, b)))
      back(t) == FracAdd(cycle, FracDiv(FracSub(FracSub(t, cycle), b), FracSub(e, b)))
  IN  SeqMap(LAMBDA hap : hapWithSpan(hap, LAMBDA sp : TimeSpan(back(sp.begin), back(sp.end))),
             Query(p, State(TimeSpan(forth(span.begin), forth(span.end)), NoControls)))

\* the same cycle after cycle of a span
Zoomed(p, b, e, span) ==
  flatten(SeqMap(LAMBDA subspan : ZoomedCycle(p, b, e, subspan), spanCycles(span)))

\* what take(i) of p, a pattern of s > 0 steps, is to play
TakeKeeps(i, s, p, span) ==
  IF FracEq(i, F0) THEN <<>>
  ELSE IF FracGte(FracAbs(i), s) THEN Query(p, State(span, NoControls))
  ELSE IF FracGt(i, F0) THEN Zoomed(p, F0, FracDiv(i, s), span)
  ELSE Zoomed(p, FracSub(F1, FracDiv(FracAbs(i), s)), F1, span)

\* what drop(i) of p, a pattern of s > 0 steps, is to play
DropKeeps(i, s, p, span) ==
  IF FracGte(FracAbs(i), s) THEN <<>>
  ELSE IF FracEq(i, F0) THEN Query(p, State(span, NoControls))
  ELSE IF FracGt(i, F0) THEN Zoomed(p, FracDiv(i, s), F1, span)
  ELSE Zoomed(p, F0, FracSub(F1, FracDiv(FracAbs(i), s)), span)

\* pat is `nothing`: no events and no steps
IsNothing == haps = <<>> /\ StepsOf(pat) = F0

\* the last call was take or drop on a pattern of a positive number of steps
TookOrDropped ==
  /\ queried
  /\ lastOp \in {"take", "drop"}
  /\ IsDef(StepsOf(arms[1].pat))
  /\ FracGt(StepsOf(arms[1].pat), F0)

\* C22: on a pattern of s > 0 steps take(0) is nothing, take(i) with |i| >= s the
\* whole pattern, drop(i) with |i| >= s nothing, and for 0 < |i| < s take(i) plays
\* the first (i > 0) or last (i < 0) |i| steps and drop(i) the other steps
C22_TakeAndDrop ==
  TookOrDropped =>
    LET i == arms[1].time
        p == arms[1].pat
        s == StepsOf(p)
    IN  /\ lastOp = "take" => haps = TakeKeeps(i, s, p, qspan)
        /\ lastOp = "take" /\ FracEq(i, F0) => IsNothing
        /\ lastOp = "drop" => haps = DropKeeps(i, s, p, qspan)
        /\ lastOp = "drop" /\ FracGte(FracAbs(i), s) => IsNothing

\* C22 without drop(i) for |i| > s: take as stated, drop for |i| <= s
C22_TakeAndDropUpToSteps ==
  TookOrDropped /\ (lastOp = "drop" => FracLte(FracAbs(arms[1].time), StepsOf(arms[1].pat))) =>
    LET i == arms[1].time
        p == arms[1].pat
        s == StepsOf(p)
    IN  /\ lastOp = "take" => haps = TakeKeeps(i, s, p, qspan)
        /\ lastOp = "take" /\ FracEq(i, F0) => IsNothing
        /\ lastOp = "drop" => haps = DropKeeps(i, s, p, qspan)
        /\ lastOp = "drop" /\ FracEq(FracAbs(i), s) => IsNothing

\* the last call was a stepwise function on a pattern of undefined steps
OnStepless(names) ==
  /\ queried
  /\ lastOp \in names
  /\ ~IsDef(StepsOf(arms[1].pat))

\* C23: take, drop, shrink, grow, pace, expand and contract of a pattern whose
\* steps are undefined are nothing: no events and 0 steps
C23_SteplessIsNothing ==
  OnStepless({"take", "drop", "shrink", "grow", "pace", "expand", "contract"}) => IsNothing

\* C23 as the code has it: take, drop, shrink and grow of a pattern of undefined
\* steps are nothing; pace, expand and contract play the pattern, steps undefined
C23_SteplessIsNothingOrItself ==
  /\ OnStepless({"take", "drop", "shrink", "grow"}) => IsNothing
  /\ OnStepless({"pace", "expand", "contract"}) =>
       /\ haps = Query(arms[1].pat, QState)
       /\ ~IsDef(StepsOf(pat))

\* every arm has a positive number of steps
PositiveSteps(pats) ==
  \A i \in 1..Len(pats) : IsDef(StepsOf(pats[i])) /\ FracGt(StepsOf(pats[i]), F0)

\* the events of each arm played fast by steps / (its steps), arm after arm
RECURSIVE FastToSteps(_, _, _)
FastToSteps(pats, steps, state) ==
  IF pats = <<>> THEN <<>>
  ELSE Query(fast(FracDiv(steps, StepsOf(Head(pats))), Head(pats)), state)
       \o FastToSteps(Tail(pats), steps, state)

C25_TriggersInOrder ==
  /\ called # <<>> =>
       \E args \in TriggerArgs :
         called = [i \in 1..Len(attached) |-> [cb |-> attached[i].cb, args |-> args]]
  /\ attached # <<>> =>
       /\ context.dominantTrigger \in {"true", "false"}
       /\ context.dominantTrigger = "true" <=>
            \E i \in 1..Len(attached) : dominantOrDefault(attached[i].dominant) = "true"

\* three callbacks attached, the first dominant and the last not, and called
C25_Witness ==
  /\ Len(attached) = 3
  /\ attached[1].dominant = "true"
  /\ attached[3].dominant = "false"
  /\ attached[1].cb # attached[2].cb
  /\ Len(called) = 3

\* the pairs of an event of p and an event of q in the query span whose parts
\* intersect
PartsMeet(p, q) ==
  {ab \in Range(Query(p, QState)) \X Range(Query(q, QState)) :
     HasSpan(intersection(ab[1].part, ab[2].part))}

\* op(a, b) of the composer whose function is held
OpOf(a, b) == IF held.v.kind = "add_" THEN NumV(a.num + b.num) ELSE NumV(a.num - b.num)

\* the last call was a composer, on discrete patterns
Composed(how) == queried /\ lastOp = how /\ Len(arms) = 2

\* C26: p.op.in(q) has the wholes and the steps of p, p.op.out(q) those of q, and
\* p.op.mix(q) the intersection of the two wholes and the lcm of the steps; the
\* part is the intersection of the parts and the value op(value of p, value of q)
C26_ComposerStructure ==
  /\ Composed("in") =>
       /\ StepsOf(pat) = StepsOf(arms[1])
       /\ Range(haps) = {Hap(ab[1].whole, intersection(ab[1].part, ab[2].part),
                             OpOf(ab[1].value, ab[2].value)) : ab \in PartsMeet(arms[1], arms[2])}
  /\ Composed("out") =>
       /\ StepsOf(pat) = StepsOf(arms[2])
       /\ Range(haps) = {Hap(ab[2].whole, intersection(ab[1].part, ab[2].part),
                             OpOf(ab[1].value, ab[2].value)) : ab \in PartsMeet(arms[1], arms[2])}
  /\ Composed("mix") =>
       /\ StepsOf(pat) = lcm(<<StepsOf(arms[1]), StepsOf(arms[2])>>)
       /\ Range(haps) = {Hap(intersection(ab[1].whole, ab[2].whole),
                             intersection(ab[1].part, ab[2].part),
                             OpOf(ab[1].value, ab[2].value)) : ab \in PartsMeet(arms[1], arms[2])}

\* a sub.mix of a pattern of two steps with one of three steps, whose events have
\* wholes that neither pattern has
C26_Witness ==
  /\ Composed("mix")
  /\ held.v.kind = "sub_"
  /\ StepsOf(arms[1]) = Int2F(2)
  /\ StepsOf(arms[2]) = Int2F(3)
  /\ StepsOf(pat) = Int2F(6)
  /\ Len(haps) = 4

\* the values the pattern splice was called on has during the part of hap
OriginalValues(hap) ==
  {o.value : o \in Range(Query(arms[1], State(hap.part, qcontrols)))}

\* speed and unit of an event of splice as claimed: (cps / n / d) * s0 and "c",
\* cps and s0 being 1 when absent
SplicedAsClaimed(hap, original) ==
  LET cps == IF IsDef(qcontrols.cps) THEN qcontrols.cps ELSE F1
      s0 == IF IsDef(asObject(original).speed) THEN asObject(original).speed ELSE F1
      d == FracSub(hap.whole.end, hap.whole.begin)
  IN  /\ FracEq(hap.value.pat[1].speed,
                FracMul(FracDiv(FracDiv(cps, Int2F(arms[3].v.num)), d), s0))
      /\ hap.value.pat[1].unit = "c"

\* C27: every event of splice(n, indexPat) has speed (cps / n / d) * s0 and unit
\* "c", d the duration of its whole, also when the original value has a speed or a
\* unit
C27_SpliceSpeedAndUnit ==
  queried /\ lastOp = "splice" =>
    \A i \in 1..Len(haps) : \A original \in OriginalValues(haps[i]) :
      SplicedAsClaimed(haps[i], original)

\* C27 as the code has it: speed and unit as claimed when the original value has
\* neither, and the speed and the unit of the original value where it has them
C27_SpliceKeepsSpeedAndUnit ==
  queried /\ lastOp = "splice" =>
    \A i \in 1..Len(haps) : \A original \in OriginalValues(haps[i]) :
      LET o == asObject(original)
          v == haps[i].value.pat[1]
      IN  /\ ~IsDef(o.speed) /\ o.unit = "" => SplicedAsClaimed(haps[i], original)
          /\ IsDef(o.speed) => v.speed = o.speed
          /\ o.unit # "" => v.unit = o.unit
          /\ o.unit = "" => v.unit = "c"

\* C28: whatever combinators are called, _fast(0), cpm(0), _linger(0) and
\* _bypass(1) on a pattern whose steps are not 1 included, the constant silence
\* has 1 step and the constant nothing 0 steps
C28_ConstantsKeepSteps == silenceSteps = F1 /\ nothingSteps = F0

\* C28 as the code has it: nothing keeps 0 steps; silence has the steps of the
\* last pattern that _fast(0), cpm(0), _linger(0) or _bypass(1) was called on, and
\* no other call changes them
C28_SilenceTakesStepsOfCaller ==
  [][/\ nothingSteps' = F0
     /\ silenceSteps' # silenceSteps =>
          /\ lastOp' \in {"_fast", "cpm", "_linger", "_bypass"}
          /\ pat'.op \in {"silence", "withContext"}
          /\ silenceSteps' = StepsOf(pat)
     /\ lastOp' \in {"_fast", "_linger", "_bypass"} /\ pat'.op = "silence" /\ ops' = ops + 1 =>
          silenceSteps' = StepsOf(pat)]_vars

\* the points a queried span is cut at: its middle (a cycle boundary for the
\* spans over two cycles) and the end of its first third
SplitPoints(span) ==
  {FracDiv(FracAdd(span.begin, span.end), Int2F(2)),
   FracAdd(span.begin, FracDiv(FracSub(span.end, span.begin), Int2F(3)))}

WholeValues(hs) == {<<hs[i].whole, hs[i].value>> : i \in 1..Len(hs)}

PartsOfWhole(hs, wv) ==
  {hs[i].part : i \in {j \in 1..Len(hs) : <<hs[j].whole, hs[j].value>> = wv}}

CoveredBy(t, parts) ==
  \E part \in parts : FracLte(part.begin, t) /\ FracLt(t, part.end)

\* the spans cover the same time: between any two of their ends, the time in
\* the middle is in a span of one set exactly when it is in a span of the other
CoverTheSame(parts, others) ==
  LET marks == {part.begin : part \in parts \cup others}
                 \cup {part.end : part \in parts \cup others}
  IN \A x \in marks : \A y \in marks :
       FracLt(x, y) =>
         LET t == FracDiv(FracAdd(x, y), Int2F(2))
         IN CoveredBy(t, parts) <=> CoveredBy(t, others)

SpansDisjoint(a, b) == FracLte(a.end, b.begin) \/ FracLte(b.end, a.begin)

\* the queried span cut at m returns what the single query returned
SplitAt(m) ==
  LET left == queryArc(pat, qspan.begin, m)
      right == queryArc(pat, m, qspan.end)
  IN /\ WholeValues(haps) = WholeValues(left) \cup WholeValues(right)
     /\ \A wv \in WholeValues(haps) :
          /\ \A l \in PartsOfWhole(left, wv) : \A r \in PartsOfWhole(right, wv) :
               SpansDisjoint(l, r)
          /\ CoverTheSame(PartsOfWhole(haps, wv),
                          PartsOfWhole(left, wv) \cup PartsOfWhole(right, wv))

\* C29: for a discrete pattern built from pure, fastcat, slowcat, stack, fast,
\* slow, early, late, rev and degradeBy and every m strictly inside the queried
\* span [b,e), the (whole, value) pairs returned for [b,e) are those returned
\* for [b,m) together with those returned for [m,e), and for each of them the
\* parts returned for [b,m) are disjoint from the parts returned for [m,e) and
\* the two together cover exactly the time the parts of the single query cover
C29_SplitQueryReturnsTheSame ==
  (queried /\ ~raised) => \A m \in SplitPoints(qspan) : SplitAt(m)

\* a pattern of two calls ending in slowcat or degradeBy is queried over a span
\* that crosses a cycle boundary, returns events of several wholes, and one of
\* them is cut by a split point: both pieces return a part of it
C29_Witness ==
  /\ queried /\ ~raised /\ ops >= 2
  /\ lastOp \in {"slowcat", "degradeBy", "rev"}
  /\ sam(qspan.begin) # sam(FracSub(qspan.end, Fraction(1, 100)))
  /\ Cardinality(WholeValues(haps)) >= 2
  /\ \E m \in SplitPoints(qspan) : \E wv \in WholeValues(haps) :
       /\ PartsOfWhole(queryArc(pat, qspan.begin, m), wv) # {}
       /\ PartsOfWhole(queryArc(pat, m, qspan.end), wv) # {}

\* the join of a function of the pick family
JoinOf(name, pp) ==
  CASE name \in {"pick", "pickmod"} -> innerJoin(pp)
    [] name \in {"pickOut", "pickmodOut"} -> outerJoin(pp)
    [] name \in {"pickRestart", "pickmodRestart"} -> restartJoin(pp)
    [] name \in {"pickReset", "pickmodReset"} -> resetJoin(pp, FALSE)
    [] name \in {"inhabit", "inhabitmod", "squeeze"} -> squeezeJoin(pp)

\* i clamped into 0 .. len - 1
Clamped(i, len) == IF i < 0 THEN 0 ELSE IF i > len - 1 THEN len - 1 ELSE i

\* the function the last call gave to fmap
SelectorOf(name, lookup) ==
  IF name = "squeeze" THEN SqueezeKeyV(lookup) ELSE PickV(lookup, name \in PickmodNames)

\* the events of the index pattern over the queried span
IndexHaps == queryArc(arms[1], qspan.begin, qspan.end)

\* the last call was of the pick family or squeeze, and was queried
Picked == queried /\ lastOp \in PickNames \cup PickmodNames \cup {"squeeze"}

\* the function of names selects, for the index i, the entry at position(i, len)
Selects(names, position(_, _)) ==
  (Picked /\ lastOp \in names) =>
     LET lookup == Tail(arms)
     IN \A hap \in Range(IndexHaps) :
          Apply(SelectorOf(lastOp, lookup), hap.value)
            = PatV(lookup[position(hap.value.num, Len(lookup)) + 1])

\* the events are those of the join of the entries at i mod len, as squeeze
\* selects them
PlaysAsSqueezeSelects ==
  (Picked /\ lastOp \in PickmodNames) =>
     haps = queryArc(JoinOf(lastOp, withValue(arms[1], SqueezeKeyV(Tail(arms)))),
                     qspan.begin, qspan.end)

\* C30: for a lookup array of length len >= 1 and every integer index i of the
\* selecting pattern, negative ones included, pickmod, pickmodOut,
\* pickmodRestart, pickmodReset and inhabitmod select the entry at position
\* i mod len in 0..len-1, exactly as squeeze does, never undefined, and play the
\* join of these entries; pick, pickOut, pickRestart, pickReset and inhabit
\* select the entry at i clamped into 0..len-1
C30_PickmodSelectsModulo ==
  /\ Selects(PickmodNames \cup {"squeeze"}, LAMBDA i, len : i % len)
  /\ PlaysAsSqueezeSelects
  /\ Selects(PickNames, LAMBDA i, len : Clamped(i, len))

\* the position the remainder of JavaScript gives: i mod len for i >= 0, and
\* for i < 0 the position 0 when len divides i and none otherwise
RemainderSelects ==
  (Picked /\ lastOp \in PickmodNames) =>
     LET lookup == Tail(arms)
         len == Len(lookup)
     IN \A hap \in Range(IndexHaps) :
          Apply(SelectorOf(lastOp, lookup), hap.value)
            = IF hap.value.num >= 0 \/ hap.value.num % len = 0
              THEN PatV(lookup[(hap.value.num % len) + 1])
              ELSE UndefV

\* an index of the queried span selects undefined
SelectsUndefined ==
  \E hap \in Range(IndexHaps) :
     Apply(SelectorOf(lastOp, Tail(arms)), hap.value) = UndefV

\* C30 as the code has it: squeeze selects the entry at i mod len and the pick
\* family the entry at i clamped into 0..len-1; the pickmod family selects the
\* entry at i mod len for i >= 0 and for the negative multiples of len, and
\* undefined for every other negative i; a query that meets such an index
\* throws in the join and queryArc returns no events at all, and every other
\* query returns the events of the join of the entries at i mod len
C30_PickmodSelectsRemainder ==
  /\ Selects({"squeeze"}, LAMBDA i, len : i % len)
  /\ Selects(PickNames, LAMBDA i, len : Clamped(i, len))
  /\ RemainderSelects
  /\ (Picked /\ lastOp \in PickmodNames /\ SelectsUndefined) => haps = <<>>
  /\ (Picked /\ lastOp \in PickmodNames /\ ~SelectsUndefined) => PlaysAsSqueezeSelects

\* C2: every event returned by a query of a pattern built from the combinators,
\* fastGap, compress, rev, appBoth and the inner, outer, squeeze, reset and restart
\* joins included, that has a whole has
\* whole.begin <= part.begin <= part.end <= whole.end.
C2_PartInsideWhole ==
  queried =>
    \A i \in 1..Len(haps) :
      HasSpan(haps[i].whole) =>
        /\ FracLte(haps[i].whole.begin, haps[i].part.begin)
        /\ FracLte(haps[i].part.begin, haps[i].part.end)
        /\ FracLte(haps[i].part.end, haps[i].whole.end)

\* a join returned an event whose part is cut at both ends
C2_Witness ==
  /\ queried
  /\ lastOp \in {"squeezeJoin", "resetJoin", "restartJoin"}
  /\ \E i \in 1..Len(haps) :
       /\ FracLt(haps[i].whole.begin, haps[i].part.begin)
       /\ FracLt(haps[i].part.end, haps[i].whole.end)

\* C3: querying the same pattern value twice with the same State returns the same
\* list of events, whatever other patterns were constructed or queried in between,
\* joins that read step counts when queried (stepJoin) included.
C3_SameQuerySameEvents ==
  heldSpan # NoSpan => queryArc(held, heldSpan.begin, heldSpan.end) = heldHaps

====
